---------------------------- MODULE Spec2Model ----------------------------
(***************************************************************************)
(* A model of the invoice discrepancy detector: the history store          *)
(* (lib/dataStore), the statistics calculator (lib/statisticsCalculator),  *)
(* the detector (lib/discrepancyDetector) and the /process-invoice         *)
(* handler of server.js.                                                   *)
(*                                                                         *)
(* Numbers.  JavaScript numbers are modelled as exact rationals n/d kept   *)
(* in lowest terms with d > 0; a standard deviation, which is a square     *)
(* root, is carried as its square (the variance).  Every comparison the    *)
(* code makes is decided exactly on these.  null, undefined and NaN are    *)
(* values of their own with JavaScript's comparison rules.                 *)
(***************************************************************************)
EXTENDS Integers, Sequences, FiniteSets, TLC

VARIABLES
  file,   \* the content of data/invoiceHistory.json
  now,    \* the clock read by Date.now() and new Date()
  ret,    \* the most recent call: its arguments and what it returned
  issued, \* history variable: the ids generateId has made, each with the
          \* Date.now() and the Math.random() suffix it was made of
  procs   \* what each writer or request in progress holds in memory, and
          \* where in its code it is

vars == <<file, now, ret, issued, procs>>

(***************************************************************************)
(* JavaScript values                                                       *)
(***************************************************************************)
Abs(x) == IF x < 0 THEN -x ELSE x

RECURSIVE GCD(_, _)
GCD(a, b) == IF b = 0 THEN a ELSE GCD(b, a % b)

\* The number n/d (d /= 0), in lowest terms with a positive denominator.
Rat(n, d) ==
  LET g == GCD(Abs(n), Abs(d))
      s == IF d < 0 THEN -1 ELSE 1
  IN  [t |-> "number", n |-> (s * n) \div g, d |-> Abs(d) \div g]

Num(v) == Rat(v, 1)
Null == [t |-> "null", n |-> 0, d |-> 1]
Undefined == [t |-> "undefined", n |-> 0, d |-> 1]
NaN == [t |-> "NaN", n |-> 0, d |-> 1]
\* A string; s is its text
Str(s) == [t |-> "string", s |-> s]

IsNumber(x) == x.t = "number"
\* x == null   (true of null and of undefined)
IsNullish(x) == x.t \in {"null", "undefined"}

RatSub(a, b) == Rat(a.n * b.d - b.n * a.d, a.d * b.d)
RatMul(a, b) == Rat(a.n * b.n, a.d * b.d)
RatDiv(a, b) == Rat(a.n * b.d, a.d * b.n)
RatAbs(a) == Rat(Abs(a.n), a.d)
RatGT(a, b) == a.n * b.d > b.n * a.d
RatLT(a, b) == RatGT(b, a)

\* a > b and a < b of JavaScript on a number a: false whenever b is
\* undefined or NaN; null counts as 0.
JsGT(a, b) ==
  CASE b.t = "number" -> RatGT(a, b)
    [] b.t = "null" -> RatGT(a, Num(0))
    [] OTHER -> FALSE
JsLT(a, b) ==
  CASE b.t = "number" -> RatLT(a, b)
    [] b.t = "null" -> RatLT(a, Num(0))
    [] OTHER -> FALSE
\* b * k of JavaScript for a number k: NaN when b is undefined or NaN.
JsTimes(b, k) ==
  CASE b.t = "number" -> RatMul(b, k)
    [] b.t = "null" -> Num(0)
    [] OTHER -> NaN

\* A non-negative number known by its square sq (a standard deviation, a
\* stdDevVariance): is it > b ?
RootGT(sq, b) ==
  CASE b.t = "number" -> b.n < 0 \/ RatGT(sq, RatMul(b, b))
    [] b.t = "null" -> sq.n > 0
    [] OTHER -> FALSE

(***************************************************************************)
(* lib/discrepancyDetector: configuration and checkValue                   *)
(***************************************************************************)
DEFAULT_CONFIG ==
  [percentageThreshold |-> Rat(15, 100),
   stdDevThreshold |-> Num(2),
   mode |-> "both",
   minSamples |-> Num(3),
   checkLineItems |-> TRUE,
   checkTotals |-> TRUE]

percentageVarianceOf_signed(currentValue, historicalMean) ==
  RatDiv(RatSub(currentValue, historicalMean), historicalMean)

\* Math.abs((currentValue - historicalMean) / historicalMean)
percentageVarianceOf(currentValue, historicalMean) ==
  RatAbs(RatDiv(RatSub(currentValue, historicalMean), historicalMean))

\* historicalStdDev > 0, for a stdDev given by its square
StdDevPositive(historicalStdDev) ==
  IsNumber(historicalStdDev) /\ historicalStdDev.n > 0

\* The square of  stdDev > 0 ? Math.abs((current - mean) / stdDev) : 0
stdDevVarianceOf(currentValue, historicalMean, historicalStdDev) ==
  IF StdDevPositive(historicalStdDev)
  THEN LET diff == RatSub(currentValue, historicalMean)
       IN  RatDiv(RatMul(diff, diff), historicalStdDev)
  ELSE Num(0)

isDiscrepancy_strict_sd(mode, pv, sdv, historicalStdDev, config) ==
  CASE mode = "percentage" -> JsGT(pv, config.percentageThreshold)
    [] mode = "stddev" ->
         StdDevPositive(historicalStdDev) /\ RootGT(sdv, config.stdDevThreshold)
    [] mode = "both" ->
         JsGT(pv, config.percentageThreshold)
         /\ (StdDevPositive(historicalStdDev)
             /\ RootGT(sdv, config.stdDevThreshold))
    [] OTHER -> FALSE

\* The decision by mode
isDiscrepancyOf(mode, pv, sdv, historicalStdDev, config) ==
  CASE mode = "percentage" -> JsGT(pv, config.percentageThreshold)
    [] mode = "stddev" -> RootGT(sdv, config.stdDevThreshold)
    [] mode = "both" ->
         JsGT(pv, config.percentageThreshold)
         \/ (StdDevPositive(historicalStdDev)
             /\ RootGT(sdv, config.stdDevThreshold))
    [] OTHER -> FALSE

severity_nonstrict(pv, sdv, config) ==
  IF ~JsLT(pv, JsTimes(config.percentageThreshold, Num(2)))
     \/ RootGT(sdv, JsTimes(config.stdDevThreshold, Rat(3, 2)))
  THEN "high"
  ELSE IF JsGT(pv, JsTimes(config.percentageThreshold, Rat(3, 2)))
          \/ RootGT(sdv, JsTimes(config.stdDevThreshold, Rat(6, 5)))
       THEN "medium"
       ELSE "low"

severity_swapped(pv, sdv, config) ==
  IF JsGT(pv, JsTimes(config.percentageThreshold, Rat(3, 2)))
     \/ RootGT(sdv, JsTimes(config.stdDevThreshold, Rat(3, 2)))
  THEN "high"
  ELSE IF JsGT(pv, JsTimes(config.percentageThreshold, Num(2)))
          \/ RootGT(sdv, JsTimes(config.stdDevThreshold, Rat(6, 5)))
       THEN "medium"
       ELSE "low"

\* The severity
severityOf(pv, sdv, config) ==
  IF JsGT(pv, JsTimes(config.percentageThreshold, Num(2)))
     \/ RootGT(sdv, JsTimes(config.stdDevThreshold, Rat(3, 2)))
  THEN "high"
  ELSE IF JsGT(pv, JsTimes(config.percentageThreshold, Rat(3, 2)))
          \/ RootGT(sdv, JsTimes(config.stdDevThreshold, Rat(6, 5)))
       THEN "medium"
       ELSE "low"

checkValue_zeroMean(currentValue, historicalMean, historicalStdDev, config) ==
  IF IsNullish(currentValue) \/ IsNullish(historicalMean)
  THEN [isDiscrepancy |-> FALSE]
  ELSE IF IsNumber(historicalMean) /\ historicalMean.n = 0
  THEN [isDiscrepancy |-> TRUE, percentageVariance |-> NaN,
        stdDevVariance |-> Num(0), severity |-> "high"]
  ELSE LET pv == percentageVarianceOf(currentValue, historicalMean)
           sdv == stdDevVarianceOf(currentValue, historicalMean, historicalStdDev)
       IN  [isDiscrepancy |->
              isDiscrepancyOf(config.mode, pv, sdv, historicalStdDev, config),
            percentageVariance |-> pv,
            stdDevVariance |-> sdv,
            severity |-> severityOf(pv, sdv, config)]

checkValue(currentValue, historicalMean, historicalStdDev, config) ==
  IF IsNullish(currentValue) \/ IsNullish(historicalMean)
     \/ (IsNumber(historicalMean) /\ historicalMean.n = 0)
  THEN [isDiscrepancy |-> FALSE]
  ELSE LET pv == percentageVarianceOf(currentValue, historicalMean)
           sdv == stdDevVarianceOf(currentValue, historicalMean, historicalStdDev)
       IN  [isDiscrepancy |->
              isDiscrepancyOf(config.mode, pv, sdv, historicalStdDev, config),
            percentageVariance |-> pv,
            stdDevVariance |-> sdv,
            severity |-> severityOf(pv, sdv, config)]

(***************************************************************************)
(* lib/statisticsCalculator                                                *)
(***************************************************************************)
\* Item descriptions are sequences of characters.
\* \s (of its characters, the ones the inputs are made of)
Whitespace == {" ", "\t", "\n", "\r"}
UpperCase == <<"A", "B", "C", "D", "E", "F", "G", "H", "I", "J", "K", "L", "M",
               "N", "O", "P", "Q", "R", "S", "T", "U", "V", "W", "X", "Y", "Z">>
LowerCase == <<"a", "b", "c", "d", "e", "f", "g", "h", "i", "j", "k", "l", "m",
               "n", "o", "p", "q", "r", "s", "t", "u", "v", "w", "x", "y", "z">>
Letters == {UpperCase[i] : i \in 1..Len(UpperCase)} \cup {LowerCase[i] : i \in 1..Len(LowerCase)}
Digits == {"0", "1", "2", "3", "4", "5", "6", "7", "8", "9"}
\* \w
WordChars ==
  {"A", "B", "C", "D", "E", "F", "G", "H", "I", "J", "K", "L", "M", "N", "O",
   "P", "Q", "R", "S", "T", "U", "V", "W", "X", "Y", "Z",
   "a", "b", "c", "d", "e", "f", "g", "h", "i", "j", "k", "l", "m", "n", "o",
   "p", "q", "r", "s", "t", "u", "v", "w", "x", "y", "z",
   "0", "1", "2", "3", "4", "5", "6", "7", "8", "9", "_"}
LowerOf(c) ==
  IF \E i \in 1..Len(UpperCase) : UpperCase[i] = c
  THEN LowerCase[CHOOSE i \in 1..Len(UpperCase) : UpperCase[i] = c]
  ELSE c

toLowerCase(s) == [i \in 1..Len(s) |-> LowerOf(s[i])]

RECURSIVE trimStart(_)
trimStart(s) ==
  IF s # <<>> /\ Head(s) \in Whitespace THEN trimStart(Tail(s)) ELSE s
RECURSIVE trimEnd(_)
trimEnd(s) ==
  IF s # <<>> /\ s[Len(s)] \in Whitespace
  THEN trimEnd(SubSeq(s, 1, Len(s) - 1)) ELSE s
trim(s) == trimEnd(trimStart(s))

\* .replace(/\s+/g, ' ')
RECURSIVE collapseWhitespace(_)
collapseWhitespace(s) ==
  IF s = <<>> THEN <<>>
  ELSE IF Head(s) \in Whitespace
       THEN <<" ">> \o collapseWhitespace(trimStart(s))
       ELSE <<Head(s)>> \o collapseWhitespace(Tail(s))

\* .replace(/[^\w\s]/g, '')
IsWordOrSpace(c) == c \in WordChars \cup Whitespace
stripNonWord(s) == SelectSeq(s, IsWordOrSpace)

normalizeItemDescription(description) ==
  stripNonWord(collapseWhitespace(trim(toLowerCase(description))))

RatAdd(a, b) == Rat(a.n * b.d + b.n * a.d, a.d * b.d)

RECURSIVE SumOf(_)
SumOf(values) ==
  IF values = <<>> THEN Num(0) ELSE RatAdd(Head(values), SumOf(Tail(values)))

\* stdDev is carried as its square, the variance
calculateStats(values) ==
  IF values = <<>>
  THEN [mean |-> Num(0), stdDev |-> Num(0), count |-> 0]
  ELSE LET count == Len(values)
           mean == RatDiv(SumOf(values), Num(count))
           squares == [i \in 1..count |->
                         RatMul(RatSub(values[i], mean), RatSub(values[i], mean))]
           variance == RatDiv(SumOf(squares), Num(count))
       IN  [mean |-> mean, stdDev |-> variance, count |-> count]

\* The line items of all invoices, in history order
RECURSIVE AllLineItems(_)
AllLineItems(invoices) ==
  IF invoices = <<>> THEN <<>>
  ELSE (IF Head(invoices).lineItems = Undefined THEN <<>>
        ELSE Head(invoices).lineItems) \o AllLineItems(Tail(invoices))

\* The non-null values of a field, in order
RECURSIVE NonNull(_)
NonNull(values) ==
  IF values = <<>> THEN <<>>
  ELSE (IF IsNullish(Head(values)) THEN <<>> ELSE <<Head(values)>>)
       \o NonNull(Tail(values))

itemCount_qty(priceStats, qtyStats, amountStats) == qtyStats.count

\* count: priceStats.count
itemCount(priceStats, qtyStats, amountStats) == priceStats.count

calculateItemAverages(history) ==
  LET items == AllLineItems(history.invoices)
      keys == {normalizeItemDescription(items[i].description) : i \in 1..Len(items)}
      Of(key) == LET Same(it) == normalizeItemDescription(it.description) = key
                 IN  SelectSeq(items, Same)
  IN  [key \in keys |->
         LET data == Of(key)
             priceStats == calculateStats(NonNull([i \in 1..Len(data) |-> data[i].unitPrice]))
             qtyStats == calculateStats(NonNull([i \in 1..Len(data) |-> data[i].quantity]))
             amountStats == calculateStats(NonNull([i \in 1..Len(data) |-> data[i].amount]))
         IN  [originalName |-> data[1].description,
              avgUnitPrice |-> priceStats.mean,
              unitPriceStdDev |-> priceStats.stdDev,
              avgQuantity |-> qtyStats.mean,
              quantityStdDev |-> qtyStats.stdDev,
              avgAmount |-> amountStats.mean,
              amountStdDev |-> amountStats.stdDev,
              count |-> itemCount(priceStats, qtyStats, amountStats)]]

Unknown == <<"U", "n", "k", "n", "o", "w", "n">>
\* invoice.metadata?.vendor || 'Unknown'
VendorOf(invoice) ==
  IF IsNullish(invoice.metadata.vendor) \/ invoice.metadata.vendor.s = <<>>
  THEN Unknown ELSE invoice.metadata.vendor.s

calculateVendorAverages(history) ==
  LET invoices == history.invoices
      vendors == {VendorOf(invoices[i]) : i \in 1..Len(invoices)}
      Of(vendor) == LET Same(inv) == VendorOf(inv) = vendor
                    IN  SelectSeq(invoices, Same)
  IN  [vendor \in vendors |->
         LET data == Of(vendor)
             totalStats == calculateStats(NonNull([i \in 1..Len(data) |-> data[i].totals.total]))
             subtotalStats == calculateStats(NonNull([i \in 1..Len(data) |-> data[i].totals.subtotal]))
             taxStats == calculateStats(NonNull([i \in 1..Len(data) |-> data[i].totals.tax]))
         IN  [avgTotal |-> totalStats.mean,
              totalStdDev |-> totalStats.stdDev,
              avgSubtotal |-> subtotalStats.mean,
              subtotalStdDev |-> subtotalStats.stdDev,
              avgTax |-> taxStats.mean,
              taxStdDev |-> taxStats.stdDev,
              count |-> totalStats.count]]

(***************************************************************************)
(* lib/dataStore                                                           *)
(*                                                                         *)
(* The history file is missing, or holds text that is not JSON ("garbage", *)
(* or "partial": what an interrupted write leaves), or holds a JSON value: *)
(* a HistoryState, or the object {} (the function with the empty domain).  *)
(***************************************************************************)
Missing == [kind |-> "missing"]
Garbage == [kind |-> "garbage"]
Partial == [kind |-> "partial"]
Json(value) == [kind |-> "json", data |-> value]
EmptyObject == <<>>

EmptyHistory ==
  [invoices |-> <<>>, itemAverages |-> <<>>, vendorAverages |-> <<>>,
   lastUpdated |-> Null]

\* existsSync, readFileSync, JSON.parse; the catch returns the empty state
loadHistory(f) ==
  IF f.kind = "missing" THEN EmptyHistory
  ELSE IF f.kind = "json" THEN f.data
       ELSE EmptyHistory

\* What writeFileSync does to the file: it writes it whole ("ok"), fails
\* before opening it ("unopened": the file is as before), or fails after
\* truncating it, part-way through the text ("partial").
WriteOutcomes == {"ok", "unopened", "partial"}

writeFileSync(f, data, w) ==
  CASE w = "ok" -> Json(data)
    [] w = "partial" -> Partial
    [] OTHER -> f

\* data.lastUpdated = new Date().toISOString()
Stamped(data, t) == [data EXCEPT !.lastUpdated = Num(t)]

saveHistory(f, data, t, w) == writeFileSync(f, Stamped(data, t), w)

generateId_norandom(t, suffix) == <<"inv", t>>

\* `inv_${Date.now()}_${Math.random().toString(36).substr(2, 9)}`
generateId(t, suffix) == <<"inv", t, suffix>>

HasInvoices(history) == "invoices" \in DOMAIN history

invoiceRecordOf(invoiceData, t, suffix) ==
  [id |-> generateId(t, suffix),
   filename |-> invoiceData.filename,
   processedDate |-> Num(t),
   metadata |-> invoiceData.metadata,
   lineItems |-> invoiceData.lineItems,
   totals |-> invoiceData.totals]

\* The outcome of a call that may save: the file afterwards, what was
\* thrown, the value returned, and the state handed to writeFileSync.
Outcome(f, threw, value, saving) ==
  [file |-> f, threw |-> threw, value |-> value, saving |-> saving]
NotSaved == [attempted |-> FALSE]
Saving(data) == [attempted |-> TRUE, data |-> data]
ThrewOnWrite(w) == IF w = "ok" THEN "none" ELSE "WriteError"

addInvoice(f, invoiceData, t, suffix, w) ==
  LET history == loadHistory(f)
      invoiceRecord == invoiceRecordOf(invoiceData, t, suffix)
  IN  IF ~HasInvoices(history)
      THEN Outcome(f, "TypeError", Undefined, NotSaved)
      ELSE LET data == [history EXCEPT !.invoices = Append(@, invoiceRecord)]
           IN  Outcome(saveHistory(f, data, t, w), ThrewOnWrite(w),
                       IF w = "ok" THEN invoiceRecord ELSE Undefined,
                       Saving(Stamped(data, t)))

\* addInvoice as two writers run it, each in a process of its own: a writer
\* holds in memory the history it loaded with its record pushed (lines
\* 55-66), and another writer may read or write the file before this one
\* saves (line 67).
addInvoice_loaded(f, invoiceData, t, suffix) ==
  LET history == loadHistory(f)
      invoiceRecord == invoiceRecordOf(invoiceData, t, suffix)
  IN  IF ~HasInvoices(history)
      THEN [pc |-> "threw", invoiceRecord |-> invoiceRecord]
      ELSE [pc |-> "loaded", invoiceRecord |-> invoiceRecord,
            history |-> [history EXCEPT !.invoices = Append(@, invoiceRecord)]]

addInvoice_saved_reload(f, loaded, t, w) ==
  saveHistory(f, [loadHistory(f) EXCEPT !.invoices = Append(@, loaded.invoiceRecord)],
              t, w)

\* saveHistory(history): the file is overwritten with what this writer holds
addInvoice_saved(f, loaded, t, w) == saveHistory(f, loaded.history, t, w)

clearHistory(f, t, w) ==
  Outcome(saveHistory(f, EmptyHistory, t, w), ThrewOnWrite(w), Undefined,
          Saving(Stamped(EmptyHistory, t)))

\* lib/statisticsCalculator: updateStatistics (each of its three loads
\* reads the same file)
updateStatistics(f, t, w) ==
  LET history == loadHistory(f)
  IN  IF ~HasInvoices(history)
      THEN Outcome(f, "TypeError", Undefined, NotSaved)
      ELSE LET data == [history EXCEPT
                          !.itemAverages = calculateItemAverages(loadHistory(f)),
                          !.vendorAverages = calculateVendorAverages(loadHistory(f))]
           IN  Outcome(saveHistory(f, data, t, w), ThrewOnWrite(w),
                       IF w = "ok"
                       THEN [itemAverages |-> data.itemAverages,
                             vendorAverages |-> data.vendorAverages]
                       ELSE Undefined,
                       Saving(Stamped(data, t)))

(***************************************************************************)
(* lib/discrepancyDetector: detectDiscrepancies                            *)
(***************************************************************************)
JsGE_always(a, b) == TRUE

\* a >= b of JavaScript on a number a
JsGE(a, b) ==
  CASE b.t = "number" -> ~RatLT(a, b)
    [] b.t = "null" -> ~RatLT(a, Num(0))
    [] OTHER -> FALSE

\* { ...DEFAULT_CONFIG, ...config }: a key of config wins, whatever its value
mergeConfig(config) == config @@ DEFAULT_CONFIG

\* history.itemAverages?.[itemKey] and history.vendorAverages?.[vendor]
Lookup(history, table, key) ==
  IF table \in DOMAIN history /\ key \in DOMAIN history[table]
  THEN history[table][key] ELSE Undefined

skipItem_nogate(historical, cfg) == historical = Undefined

\* !historical || historical.count < cfg.minSamples
skipItem(historical, cfg) ==
  historical = Undefined \/ JsLT(Num(historical.count), cfg.minSamples)

\* One field of a line item: the finding pushed, if any
lineItemFinding(index, item, field, avg, stdDev, historical, cfg) ==
  IF ~IsNullish(item[field]) /\ RatGT(historical[avg], Num(0))
  THEN LET d == checkValue(item[field], historical[avg], historical[stdDev], cfg)
       IN  IF d.isDiscrepancy
           THEN <<[type |-> "line_item",
                   lineIndex |-> index,
                   field |-> field,
                   description |-> item.description,
                   currentValue |-> item[field],
                   historicalAverage |-> historical[avg],
                   percentageVariance |-> d.percentageVariance,
                   stdDevVariance |-> d.stdDevVariance,
                   severity |-> d.severity,
                   historicalCount |-> historical.count]>>
           ELSE <<>>
  ELSE <<>>

\* The findings of the line items from position i on (lineIndex is i - 1)
RECURSIVE lineItemFindings(_, _, _, _)
lineItemFindings(history, lineItems, i, cfg) ==
  IF i > Len(lineItems) THEN <<>>
  ELSE LET item == lineItems[i]
           itemKey == normalizeItemDescription(item.description)
           historical == Lookup(history, "itemAverages", itemKey)
           here == IF skipItem(historical, cfg) THEN <<>>
                   ELSE lineItemFinding(i - 1, item, "unitPrice", "avgUnitPrice",
                                        "unitPriceStdDev", historical, cfg)
                        \o lineItemFinding(i - 1, item, "quantity", "avgQuantity",
                                           "quantityStdDev", historical, cfg)
                        \o lineItemFinding(i - 1, item, "amount", "avgAmount",
                                           "amountStdDev", historical, cfg)
       IN  here \o lineItemFindings(history, lineItems, i + 1, cfg)

\* One field of the totals: the finding pushed, if any
totalFinding(vendor, totals, field, avg, stdDev, vendorHistorical, cfg) ==
  IF ~IsNullish(totals[field]) /\ RatGT(vendorHistorical[avg], Num(0))
  THEN LET d == checkValue(totals[field], vendorHistorical[avg],
                           vendorHistorical[stdDev], cfg)
       IN  IF d.isDiscrepancy
           THEN <<[type |-> "total",
                   field |-> field,
                   vendor |-> vendor,
                   currentValue |-> totals[field],
                   historicalAverage |-> vendorHistorical[avg],
                   percentageVariance |-> d.percentageVariance,
                   stdDevVariance |-> d.stdDevVariance,
                   severity |-> d.severity,
                   historicalCount |-> vendorHistorical.count]>>
           ELSE <<>>
  ELSE <<>>

\* invoiceData.metadata?.vendor is truthy
VendorKnown(invoiceData) ==
  ~IsNullish(invoiceData.metadata.vendor) /\ invoiceData.metadata.vendor.s # <<>>

totalFindings_tax(history, invoiceData, cfg) ==
  IF cfg.checkTotals /\ VendorKnown(invoiceData)
  THEN LET vendor == invoiceData.metadata.vendor.s
           vendorHistorical == Lookup(history, "vendorAverages", vendor)
       IN  IF vendorHistorical # Undefined
              /\ JsGE(Num(vendorHistorical.count), cfg.minSamples)
           THEN totalFinding(vendor, invoiceData.totals, "total", "avgTotal",
                             "totalStdDev", vendorHistorical, cfg)
                \o totalFinding(vendor, invoiceData.totals, "tax", "avgTax",
                                "taxStdDev", vendorHistorical, cfg)
           ELSE <<>>
  ELSE <<>>

totalFindings(history, invoiceData, cfg) ==
  IF cfg.checkTotals /\ VendorKnown(invoiceData)
  THEN LET vendor == invoiceData.metadata.vendor.s
           vendorHistorical == Lookup(history, "vendorAverages", vendor)
       IN  IF vendorHistorical # Undefined
              /\ JsGE(Num(vendorHistorical.count), cfg.minSamples)
           THEN totalFinding(vendor, invoiceData.totals, "total", "avgTotal",
                             "totalStdDev", vendorHistorical, cfg)
                \o totalFinding(vendor, invoiceData.totals, "subtotal", "avgSubtotal",
                                "subtotalStdDev", vendorHistorical, cfg)
           ELSE <<>>
  ELSE <<>>

detectDiscrepancies(f, invoiceData, config) ==
  LET cfg == mergeConfig(config)
      history == loadHistory(f)
      discrepancies ==
        (IF cfg.checkLineItems /\ invoiceData.lineItems # Undefined
         THEN lineItemFindings(history, invoiceData.lineItems, 1, cfg)
         ELSE <<>>)
        \o totalFindings(history, invoiceData, cfg)
  IN  [hasDiscrepancies |-> Len(discrepancies) > 0,
       discrepancyCount |-> Len(discrepancies),
       discrepancies |-> discrepancies,
       config |-> cfg]

detectDiscrepancies_appending(f, invoiceData, config, t) ==
  updateStatistics(addInvoice(f, invoiceData, t, 1, "ok").file, t, "ok").file

\* The history file after detectDiscrepancies: its one access to the store is
\* the loadHistory of line 32, which reads
detectDiscrepancies_file(f, invoiceData, config, t) == f

(***************************************************************************)
(* server.js: the configuration /process-invoice builds from the request   *)
(* body.  A body field is undefined or a string of characters.             *)
(***************************************************************************)
DigitValue(c) ==
  CASE c = "0" -> 0 [] c = "1" -> 1 [] c = "2" -> 2 [] c = "3" -> 3 [] c = "4" -> 4
    [] c = "5" -> 5 [] c = "6" -> 6 [] c = "7" -> 7 [] c = "8" -> 8 [] c = "9" -> 9

\* The longest prefix of s made of digits
RECURSIVE digitPrefix(_)
digitPrefix(s) ==
  IF s # <<>> /\ Head(s) \in Digits THEN <<Head(s)>> \o digitPrefix(Tail(s)) ELSE <<>>

RECURSIVE digitsValue(_)
digitsValue(ds) ==
  IF ds = <<>> THEN 0
  ELSE 10 * digitsValue(SubSeq(ds, 1, Len(ds) - 1)) + DigitValue(ds[Len(ds)])

RECURSIVE PowerOfTen(_)
PowerOfTen(k) == IF k = 0 THEN 1 ELSE 10 * PowerOfTen(k - 1)

Signed(s) == s # <<>> /\ Head(s) \in {"-", "+"}
Unsigned(s) == IF Signed(s) THEN Tail(s) ELSE s
SignOf(s) == IF s # <<>> /\ Head(s) = "-" THEN -1 ELSE 1

\* parseInt(x): leading whitespace, a sign, decimal digits; NaN without digits
parseInt(x) ==
  IF x.t # "string" THEN NaN
  ELSE LET s == trimStart(x.s)
           ds == digitPrefix(Unsigned(s))
       IN  IF ds = <<>> THEN NaN ELSE Num(SignOf(s) * digitsValue(ds))

\* parseFloat(x): leading whitespace, a sign, digits, a fraction; NaN without
\* digits (exponents and Infinity are not modelled)
parseFloat(x) ==
  IF x.t # "string" THEN NaN
  ELSE LET s == trimStart(x.s)
           u == Unsigned(s)
           ds == digitPrefix(u)
           rest == SubSeq(u, Len(ds) + 1, Len(u))
           fs == IF rest # <<>> /\ Head(rest) = "." THEN digitPrefix(Tail(rest)) ELSE <<>>
       IN  IF ds = <<>> /\ fs = <<>> THEN NaN
           ELSE Rat(SignOf(s) * (digitsValue(ds) * PowerOfTen(Len(fs)) + digitsValue(fs)),
                    PowerOfTen(Len(fs)))

\* x || dflt for a number x: NaN and 0 are falsy
OrDefault(x, dflt) == IF x.t = "number" /\ x.n # 0 THEN x ELSE dflt

requestConfig(body) ==
  [percentageThreshold |-> OrDefault(parseFloat(body.percentageThreshold), Rat(15, 100)),
   stdDevThreshold |-> OrDefault(parseFloat(body.stdDevThreshold), Num(2)),
   mode |-> IF IsNullish(body.mode) \/ body.mode.s = "" THEN "both" ELSE body.mode.s,
   minSamples |-> OrDefault(parseInt(body.minSamples), Num(3))]

(***************************************************************************)
(* lib/invoiceParser.  A text is a sequence of characters.                 *)
(*                                                                         *)
(* Regular expressions.  A pattern is a sequence of items: a character     *)
(* class with its quantifier, a group with its quantifier, an alternation, *)
(* the start and the end of a capturing group, ^ and $.  Match tries the   *)
(* choices in the order the backtracking matcher of JavaScript tries them  *)
(* (a greedy quantifier the longest first, a lazy one the shortest first,  *)
(* an alternation from left to right) and returns the first that lets the  *)
(* rest of the pattern match.                                              *)
(***************************************************************************)
Unbounded == 1000
LineTerminators == {"\n", "\r"}
Class(set, min, max) ==
  [k |-> "class", neg |-> FALSE, set |-> set, min |-> min, max |-> max, lazy |-> FALSE]
NotClass(set, min, max) ==
  [k |-> "class", neg |-> TRUE, set |-> set, min |-> min, max |-> max, lazy |-> FALSE]
Lazy(class) == [class EXCEPT !.lazy = TRUE]
Group(items, min, max) == [k |-> "group", items |-> items, min |-> min, max |-> max]
Alt(alts) == [k |-> "alt", alts |-> alts]
Open(name) == [k |-> "open", name |-> name]
Close(name) == [k |-> "close", name |-> name]
Capture(name, items) == <<Open(name)>> \o items \o <<Close(name)>>
Bol == [k |-> "bol"]
Eol == [k |-> "eol"]
\* the characters of a literal, one after the other
Lit(chars) == [j \in 1..Len(chars) |-> Class({chars[j]}, 1, 1)]
Opt(items) == Group(items, 0, 1)
Star(items) == Group(items, 0, Unbounded)

\* flags: i (ignore case) and m (^ and $ match at line terminators)
InClass(c, class, flags) ==
  LET in == IF flags.i THEN \E x \in class.set : LowerOf(x) = LowerOf(c)
            ELSE c \in class.set
  IN  IF class.neg THEN ~in ELSE in

\* how many characters of s from position i + 1 on are in the class, up to max
RECURSIVE RunLength(_, _, _, _, _)
RunLength(s, i, class, flags, max) ==
  IF max = 0 \/ i >= Len(s) \/ ~InClass(s[i + 1], class, flags) THEN 0
  ELSE 1 + RunLength(s, i + 1, class, flags, max - 1)

NoMatch == [ok |-> FALSE]

RECURSIVE Match(_, _, _, _, _)
RECURSIVE MatchClass(_, _, _, _, _, _, _)
RECURSIVE MatchAlt(_, _, _, _, _, _, _)

\* the class at the head of items taken len times, then the next length in
\* the order of the quantifier, from..to being the lengths not yet tried
MatchClass(items, s, i, caps, flags, from, to) ==
  IF from > to THEN NoMatch
  ELSE LET len == IF Head(items).lazy THEN from ELSE to
           r == Match(Tail(items), s, i + len, caps, flags)
       IN  IF r.ok THEN r
           ELSE IF Head(items).lazy
                THEN MatchClass(items, s, i, caps, flags, from + 1, to)
                ELSE MatchClass(items, s, i, caps, flags, from, to - 1)

MatchAlt(alts, j, rest, s, i, caps, flags) ==
  IF j > Len(alts) THEN NoMatch
  ELSE LET r == Match(alts[j] \o rest, s, i, caps, flags)
       IN  IF r.ok THEN r ELSE MatchAlt(alts, j + 1, rest, s, i, caps, flags)

\* items matched against s from position i + 1 on; caps holds the bounds of
\* the capturing groups passed
Match(items, s, i, caps, flags) ==
  IF Len(items) = 0 THEN [ok |-> TRUE, end |-> i, caps |-> caps]
  ELSE LET item == Head(items)
           rest == Tail(items)
       IN  CASE item.k = "class" ->
                  LET n == RunLength(s, i, item, flags, item.max)
                  IN  MatchClass(items, s, i, caps, flags, item.min, n)
             [] item.k = "group" ->
                  LET again == [item EXCEPT !.min = IF @ > 0 THEN @ - 1 ELSE 0,
                                            !.max = @ - 1]
                      r == IF item.max > 0
                           THEN Match(item.items \o <<again>> \o rest, s, i, caps, flags)
                           ELSE NoMatch
                  IN  IF r.ok THEN r
                      ELSE IF item.min = 0 THEN Match(rest, s, i, caps, flags)
                      ELSE NoMatch
             [] item.k = "alt" -> MatchAlt(item.alts, 1, rest, s, i, caps, flags)
             [] item.k = "open" ->
                  Match(rest, s, i, [caps EXCEPT ![item.name] = <<i + 1, i>>], flags)
             [] item.k = "close" ->
                  Match(rest, s, i, [caps EXCEPT ![item.name] = <<@[1], i>>], flags)
             [] item.k = "bol" ->
                  IF i = 0 \/ (flags.m /\ s[i] \in LineTerminators)
                  THEN Match(rest, s, i, caps, flags) ELSE NoMatch
             [] item.k = "eol" ->
                  IF i = Len(s) \/ (flags.m /\ s[i + 1] \in LineTerminators)
                  THEN Match(rest, s, i, caps, flags) ELSE NoMatch

\* s.match(pattern): the match that starts leftmost, its groups as strings
\* (group 1..groups), or NoMatch (null)
RECURSIVE SearchFrom(_, _, _)
SearchFrom(pattern, s, i) ==
  IF i > Len(s) THEN NoMatch
  ELSE LET r == Match(pattern.items, s, i,
                      [g \in 1..pattern.groups |-> <<1, 0>>], pattern.flags)
       IN  IF r.ok
           THEN [ok |-> TRUE,
                 group |-> [g \in 1..pattern.groups |->
                              SubSeq(s, r.caps[g][1], r.caps[g][2])]]
           ELSE SearchFrom(pattern, s, i + 1)
match(s, pattern) == SearchFrom(pattern, s, 0)

\* PATTERNS
WS(min, max) == Class(Whitespace, min, max)
Char(c) == Class({c}, 1, 1)
OptChar(c) == Class({c}, 0, 1)
\* \d+(?:,\d{3})*(?:\.\d{2})?  and  \d{1,3}(?:,\d{3})*(?:\.\d{2})?
Amount(maxLead) ==
  <<Class(Digits, 1, maxLead),
    Star(<<Char(","), Class(Digits, 3, 3)>>),
    Opt(<<Char("."), Class(Digits, 2, 2)>>)>>
Pattern(items, groups, flags) == [items |-> items, groups |-> groups, flags |-> flags]
FlagI == [i |-> TRUE, m |-> FALSE]
FlagM == [i |-> FALSE, m |-> TRUE]

\* /invoice\s*(?:#|number|no\.?)?\s*:?\s*([A-Z0-9-]+)/i
PATTERNS_invoiceNumber ==
  Pattern(Lit(<<"i", "n", "v", "o", "i", "c", "e">>)
          \o <<WS(0, Unbounded),
               Opt(<<Alt(<<Lit(<<"#">>),
                           Lit(<<"n", "u", "m", "b", "e", "r">>),
                           Lit(<<"n", "o">>) \o <<OptChar(".")>>>>)>>),
               WS(0, Unbounded), OptChar(":"), WS(0, Unbounded)>>
          \o Capture(1, <<Class(Letters \cup Digits \cup {"-"}, 1, Unbounded)>>),
          1, FlagI)

\* /(?:invoice\s*)?date\s*:?\s*(\d{1,2}[-/]\d{1,2}[-/]\d{2,4})/i
PATTERNS_invoiceDate ==
  Pattern(<<Opt(Lit(<<"i", "n", "v", "o", "i", "c", "e">>) \o <<WS(0, Unbounded)>>)>>
          \o Lit(<<"d", "a", "t", "e">>)
          \o <<WS(0, Unbounded), OptChar(":"), WS(0, Unbounded)>>
          \o Capture(1, <<Class(Digits, 1, 2), Class({"-", "/"}, 1, 1),
                           Class(Digits, 1, 2), Class({"-", "/"}, 1, 1),
                           Class(Digits, 2, 4)>>),
          1, FlagI)

\* /(?:from|vendor|company)\s*:?\s*([A-Z][A-Za-z\s&.,]+?)(?:\n|$)/i
PATTERNS_vendor ==
  Pattern(<<Alt(<<Lit(<<"f", "r", "o", "m">>),
                  Lit(<<"v", "e", "n", "d", "o", "r">>),
                  Lit(<<"c", "o", "m", "p", "a", "n", "y">>)>>),
            WS(0, Unbounded), OptChar(":"), WS(0, Unbounded)>>
          \o Capture(1, <<Class(Letters, 1, 1),
                           Lazy(Class(Letters \cup Whitespace \cup {"&", ".", ","},
                                      1, Unbounded))>>)
          \o <<Alt(<<Lit(<<"\n">>), <<Eol>>>>)>>,
          1, FlagI)

\* /^(.+?)\s{2,}(\d+)\s+\$?\s*(\d+(?:,\d{3})*(?:\.\d{2})?)\s+\$?\s*(\d+(?:,\d{3})*(?:\.\d{2})?)$/m
PATTERNS_lineItem ==
  Pattern(<<Bol>>
          \o Capture(1, <<Lazy(NotClass(LineTerminators, 1, Unbounded))>>)
          \o <<WS(2, Unbounded)>>
          \o Capture(2, <<Class(Digits, 1, Unbounded)>>)
          \o <<WS(1, Unbounded), OptChar("$"), WS(0, Unbounded)>>
          \o Capture(3, Amount(Unbounded))
          \o <<WS(1, Unbounded), OptChar("$"), WS(0, Unbounded)>>
          \o Capture(4, Amount(Unbounded))
          \o <<Eol>>,
          4, FlagM)

\* /^([^,]+),\s*(\d+),\s*\$?\s*(\d+(?:,\d{3})*(?:\.\d{2})?),\s*\$?\s*(\d+(?:,\d{3})*(?:\.\d{2})?)$/m
PATTERNS_lineItemComma ==
  Pattern(<<Bol>>
          \o Capture(1, <<NotClass({","}, 1, Unbounded)>>)
          \o <<Char(","), WS(0, Unbounded)>>
          \o Capture(2, <<Class(Digits, 1, Unbounded)>>)
          \o <<Char(","), WS(0, Unbounded), OptChar("$"), WS(0, Unbounded)>>
          \o Capture(3, Amount(Unbounded))
          \o <<Char(","), WS(0, Unbounded), OptChar("$"), WS(0, Unbounded)>>
          \o Capture(4, Amount(Unbounded))
          \o <<Eol>>,
          4, FlagM)

\* /sub\s*total\s*:?\s*\$?\s*(\d{1,3}(?:,\d{3})*(?:\.\d{2})?)/i
PATTERNS_subtotal ==
  Pattern(Lit(<<"s", "u", "b">>) \o <<WS(0, Unbounded)>>
          \o Lit(<<"t", "o", "t", "a", "l">>)
          \o <<WS(0, Unbounded), OptChar(":"), WS(0, Unbounded), OptChar("$"),
               WS(0, Unbounded)>>
          \o Capture(1, Amount(3)),
          1, FlagI)

\* /tax\s*(?:\([\d.]+%\))?\s*:?\s*\$?\s*(\d{1,3}(?:,\d{3})*(?:\.\d{2})?)/i
PATTERNS_tax ==
  Pattern(Lit(<<"t", "a", "x">>)
          \o <<WS(0, Unbounded),
               Opt(<<Char("("), Class(Digits \cup {"."}, 1, Unbounded), Char("%"),
                     Char(")")>>),
               WS(0, Unbounded), OptChar(":"), WS(0, Unbounded), OptChar("$"),
               WS(0, Unbounded)>>
          \o Capture(1, Amount(3)),
          1, FlagI)

\* /(?:grand\s*)?total\s*(?:amount)?\s*:?\s*\$?\s*(\d{1,3}(?:,\d{3})*(?:\.\d{2})?)/i
PATTERNS_total ==
  Pattern(<<Opt(Lit(<<"g", "r", "a", "n", "d">>) \o <<WS(0, Unbounded)>>)>>
          \o Lit(<<"t", "o", "t", "a", "l">>)
          \o <<WS(0, Unbounded), Opt(Lit(<<"a", "m", "o", "u", "n", "t">>)),
               WS(0, Unbounded), OptChar(":"), WS(0, Unbounded), OptChar("$"),
               WS(0, Unbounded)>>
          \o Capture(1, Amount(3)),
          1, FlagI)

\* text.split('\n')
RECURSIVE split(_)
split(text) ==
  IF \E i \in 1..Len(text) : text[i] = "\n"
  THEN LET i == CHOOSE i \in 1..Len(text) :
                  text[i] = "\n" /\ \A j \in 1..(i - 1) : text[j] # "\n"
       IN  <<SubSeq(text, 1, i - 1)>> \o split(SubSeq(text, i + 1, Len(text)))
  ELSE <<text>>

\* .replace(/,/g, '')
NotComma(c) == c # ","
removeCommas(s) == SelectSeq(s, NotComma)

isNaN(x) == x.t # "number"

extractInvoiceMetadata(text) ==
  LET invoiceMatch == match(text, PATTERNS_invoiceNumber)
      dateMatch == match(text, PATTERNS_invoiceDate)
      vendorMatch == match(text, PATTERNS_vendor)
  IN  [invoiceNumber |-> IF invoiceMatch.ok THEN Str(invoiceMatch.group[1]) ELSE Null,
       invoiceDate |-> IF dateMatch.ok THEN Str(dateMatch.group[1]) ELSE Null,
       vendor |-> IF vendorMatch.ok THEN Str(trim(vendorMatch.group[1])) ELSE Null]

\* One line of the loop of extractLineItems: the item pushed, if any
lineItemOf(line) ==
  LET first == match(line, PATTERNS_lineItem)
      m == IF first.ok THEN first ELSE match(line, PATTERNS_lineItemComma)
  IN  IF m.ok
      THEN LET description == trim(m.group[1])
               quantity == parseInt(Str(m.group[2]))
               unitPrice == parseFloat(Str(removeCommas(m.group[3])))
               amount == parseFloat(Str(removeCommas(m.group[4])))
           IN  IF ~isNaN(quantity) /\ ~isNaN(unitPrice) /\ ~isNaN(amount)
               THEN <<[description |-> description, quantity |-> quantity,
                       unitPrice |-> unitPrice, amount |-> amount]>>
               ELSE <<>>
      ELSE <<>>

RECURSIVE lineItemsFrom(_, _)
lineItemsFrom(lines, i) ==
  IF i > Len(lines) THEN <<>>
  ELSE lineItemOf(lines[i]) \o lineItemsFrom(lines, i + 1)

extractLineItems(text) == lineItemsFrom(split(text), 1)

extractTotals(text) ==
  LET subtotalMatch == match(text, PATTERNS_subtotal)
      taxMatch == match(text, PATTERNS_tax)
      totalMatch == match(text, PATTERNS_total)
  IN  [subtotal |-> IF subtotalMatch.ok
                    THEN parseFloat(Str(removeCommas(subtotalMatch.group[1])))
                    ELSE Null,
       tax |-> IF taxMatch.ok
               THEN parseFloat(Str(removeCommas(taxMatch.group[1])))
               ELSE Null,
       total |-> IF totalMatch.ok
                 THEN parseFloat(Str(removeCommas(totalMatch.group[1])))
                 ELSE Null]

parseInvoice(text) ==
  [metadata |-> extractInvoiceMetadata(text),
   lineItems |-> extractLineItems(text),
   totals |-> extractTotals(text),
   rawText |-> text]

(***************************************************************************)
(* server.js: POST /process-invoice and POST /recalculate-statistics.      *)
(* A request carries req.file (a document just uploaded, or undefined) and *)
(* req.body; a file name is a directory and a base name.  The handler of   *)
(* /process-invoice runs to its await of pdf(dataBuffer), and from there   *)
(* to its response, without giving way to another request.                 *)
(***************************************************************************)
basename(name) == name.base

\* res.status(status).send(...) and res.send(...)
Responded(status, fields) == [pc |-> "responded", status |-> status] @@ fields

\* Lines 201-215: the handler up to the await.  uploads are the base names
\* of the documents in the upload directory.
processInvoice_received(request, uploads) ==
  IF request.file # Undefined
  THEN [pc |-> "awaiting", filename |-> request.file.filename,
        dataBuffer |-> basename(request.file.filename), body |-> request.body]
  ELSE IF request.body.file # Undefined
       THEN IF basename(request.body.file) \notin uploads
            THEN Responded(404, [error |-> "file not found"])
            ELSE [pc |-> "awaiting", filename |-> request.body.file,
                  dataBuffer |-> basename(request.body.file), body |-> request.body]
       ELSE Responded(400, [error |-> "No file uploaded or filename provided"])

\* parsed.text || ''
textOf(parsed) ==
  IF IsNullish(parsed.text) \/ parsed.text.s = <<>> THEN <<>> ELSE parsed.text.s

\* The catch of lines 257-260
ProcessingFailed(f, details) ==
  [file |-> f, response |-> Responded(500, [error |-> "Processing failed",
                                            details |-> details])]

\* Lines 219-223: the invoice parsed from what pdf(dataBuffer) resolved with
invoiceDataOf(awaiting, parsed) ==
  [filename |-> awaiting.filename] @@ parseInvoice(textOf(parsed))

processInvoice_appendFirst(f, awaiting, invoiceData, t, suffix, w) ==
  LET added == addInvoice(f, invoiceData, t, suffix, w.addInvoice)
      updated == updateStatistics(added.file, t, w.updateStatistics)
  IN  [file |-> updated.file,
       response |-> Responded(200,
         [invoice |-> invoiceData,
          discrepancies |-> detectDiscrepancies(updated.file, invoiceData,
                                                requestConfig(awaiting.body))])]

processInvoice_notRefreshing(f, awaiting, invoiceData, t, suffix, w) ==
  [file |-> addInvoice(f, invoiceData, t, suffix, w.addInvoice).file,
   response |-> Responded(200,
     [invoice |-> invoiceData,
      discrepancies |-> detectDiscrepancies(f, invoiceData,
                                            requestConfig(awaiting.body))])]

processInvoice_overwriting(f, awaiting, invoiceData, t, suffix, w) ==
  LET added == addInvoice(Missing, invoiceData, t, suffix, w.addInvoice)
  IN  [file |-> updateStatistics(added.file, t, w.updateStatistics).file,
       response |-> Responded(200,
         [invoice |-> invoiceData,
          discrepancies |-> detectDiscrepancies(f, invoiceData,
                                                requestConfig(awaiting.body))])]

\* Lines 245-256: the report is written and the response sent
processInvoice_reported(updated, invoiceData, discrepancyResult, w) ==
  IF updated.threw # "none" THEN ProcessingFailed(updated.file, updated.threw)
  ELSE IF w.report # "ok" THEN ProcessingFailed(updated.file, ThrewOnWrite(w.report))
  ELSE [file |-> updated.file,
        response |-> Responded(200, [invoice |-> invoiceData,
                                     discrepancies |-> discrepancyResult])]

\* Lines 242-256: updateStatistics() after addInvoice(invoiceData) returned
processInvoice_added(added, invoiceData, discrepancyResult, t, w) ==
  IF added.threw # "none" THEN ProcessingFailed(added.file, added.threw)
  ELSE processInvoice_reported(updateStatistics(added.file, t, w.updateStatistics),
                               invoiceData, discrepancyResult, w)

\* Lines 225-256: the handler from the parsed invoice to its response.  w
\* gives the outcome of the write of addInvoice, of updateStatistics and of
\* the report.
processInvoice(f, awaiting, invoiceData, t, suffix, w) ==
  processInvoice_added(addInvoice(f, invoiceData, t, suffix, w.addInvoice),
                       invoiceData,
                       detectDiscrepancies(f, invoiceData, requestConfig(awaiting.body)),
                       t, w)

\* Lines 282-295
recalculateStatistics_sent(stats) ==
  [file |-> stats.file,
   response |-> IF stats.threw = "none"
                THEN Responded(200, [stats |-> stats.value])
                ELSE Responded(500, [error |-> "Failed to recalculate statistics",
                                     details |-> stats.threw])]
recalculateStatistics(f, t, w) == recalculateStatistics_sent(updateStatistics(f, t, w))

(***************************************************************************)
(* Inputs                                                                  *)
(***************************************************************************)
MaxInvoices == 3
MaxClock == 2
NumSuffixes == 2
NumProcs == 2
MaxLen == 5
Suffixes == 1..NumSuffixes

\* "Wl", "wl," and " wl" normalize to "wl"; "G" to "g"
Item(description, quantity, unitPrice, amount) ==
  [description |-> description, quantity |-> quantity,
   unitPrice |-> unitPrice, amount |-> amount]
Widget100 == Item(<<"W", "l">>, Num(1), Num(100), Num(100))
Widget130 == Item(<<"w", "l", ",">>, Num(1), Num(130), Num(130))
WidgetDouble == Item(<<" ", "w", "l">>, Num(2), Num(100), Num(200))
WidgetNoPrice == Item(<<"W", "l">>, Num(1), Null, Num(100))
Gadget == Item(<<"G">>, Num(1), Num(100), Num(100))

InvoiceData(filename, vendor, lineItems, subtotal, total) ==
  [filename |-> filename,
   metadata |-> [invoiceNumber |-> Null, invoiceDate |-> Null, vendor |-> vendor],
   lineItems |-> lineItems,
   totals |-> [subtotal |-> subtotal, tax |-> Null, total |-> total]]

WithTax(invoiceData, tax) == [invoiceData EXCEPT !.totals.tax = tax]

DetectInvoices ==
  {InvoiceData("a.pdf", Null, <<Widget100>>, Null, Num(100)),
   InvoiceData("b.pdf", Null, <<Widget130>>, Null, Num(130)),
   InvoiceData("c.pdf", Str(<<"a", "c", "m", "e">>), <<WidgetNoPrice, Gadget>>, Null, Num(260)),
   WithTax(InvoiceData("d.pdf", Str(<<"A", "c", "m", "e">>), <<WidgetDouble>>, Num(0), Num(200)),
           Num(20)),
   WithTax(InvoiceData("e.pdf", Str(<<"A", "c", "m", "e">>), <<>>, Num(200), Num(260)), Num(50))}

\* The invoices accepted into history before a check
HistoryInvoices ==
  {InvoiceData("a.pdf", Null, <<Widget100>>, Null, Num(100)),
   InvoiceData("b.pdf", Null, <<Widget130>>, Null, Num(130)),
   WithTax(InvoiceData("d.pdf", Str(<<"A", "c", "m", "e">>), <<WidgetDouble>>, Num(0), Num(200)),
           Num(20))}

StoreInvoices ==
  {InvoiceData("a.pdf", Null, <<Widget100>>, Null, Null),
   InvoiceData("c.pdf", Str(<<"A", "c", "m", "e">>), <<WidgetNoPrice, Widget130>>, Null, Num(230))}

\* A request body: its fields are undefined or strings of characters
Body(percentageThreshold, stdDevThreshold, mode, minSamples) ==
  [percentageThreshold |-> percentageThreshold, stdDevThreshold |-> stdDevThreshold,
   mode |-> mode, minSamples |-> minSamples]
RequestBodies ==
  {Body(Undefined, Undefined, Undefined, Undefined),
   Body(Str(<<"a", "b", "c">>), Str(<<"0">>), Str("percentage"), Str(<<"x">>)),
   Body(Str(<<"-", "1">>), Undefined, Undefined, Undefined),
   Body(Str(<<"0", ".", "3", "0">>), Str(<<"1">>), Str("stddev"), Str(<<"2">>)),
   Body(Undefined, Undefined, Undefined, Str(<<"-", "1">>))}

\* The config objects callers pass to detectDiscrepancies: <<>> is {}
DirectConfigs ==
  {<<>>,
   [percentageThreshold |-> Undefined],
   [percentageThreshold |-> Rat(-1, 100)],
   [stdDevThreshold |-> NaN, mode |-> "stddev"],
   [minSamples |-> Undefined],
   [minSamples |-> Num(2)],
   [mode |-> "percentage", percentageThreshold |-> Rat(10, 100)],
   [checkLineItems |-> FALSE],
   [checkTotals |-> FALSE]}

DetectConfigs == DirectConfigs \cup {requestConfig(b) : b \in RequestBodies}

(***************************************************************************)
(* Calls.  A call is made when the previous one has returned; ret holds    *)
(* the call and its result until Return.                                   *)
(***************************************************************************)
NoCall == [op |-> "none"]

\* The writers and requests there can be at a time; none has started
Procs == 1..NumProcs
Idle == [pc |-> "idle"]
NoProcs == [p \in Procs |-> Idle]

Return == ret # NoCall /\ ret' = NoCall /\ UNCHANGED <<file, now, issued, procs>>

Tick == ret = NoCall /\ now < MaxClock /\ now' = now + 1 /\ UNCHANGED <<file, ret, issued, procs>>

Full(f) == f.kind = "json" /\ HasInvoices(f.data) /\ Len(f.data.invoices) >= MaxInvoices

AddInvoice(invoices, suffixes, outcomes) ==
  /\ ret = NoCall
  /\ ~Full(file)
  /\ \E invoiceData \in invoices, suffix \in suffixes, w \in outcomes :
       LET o == addInvoice(file, invoiceData, now, suffix, w)
       IN  /\ file' = o.file
           /\ ret' = [op |-> "addInvoice", invoiceData |-> invoiceData,
                      threw |-> o.threw, value |-> o.value, saving |-> o.saving]
           /\ issued' = issued \cup {[t |-> now, suffix |-> suffix,
                                      id |-> generateId(now, suffix)]}
  /\ UNCHANGED <<now, procs>>

UpdateStatistics(outcomes) ==
  /\ ret = NoCall
  /\ \E w \in outcomes :
       LET o == updateStatistics(file, now, w)
       IN  /\ file' = o.file
           /\ ret' = [op |-> "updateStatistics", threw |-> o.threw,
                      value |-> o.value, saving |-> o.saving]
  /\ UNCHANGED <<now, issued, procs>>

ClearHistory(outcomes) ==
  /\ ret = NoCall
  /\ \E w \in outcomes :
       LET o == clearHistory(file, now, w)
       IN  /\ file' = o.file
           /\ ret' = [op |-> "clearHistory", threw |-> o.threw,
                      value |-> o.value, saving |-> o.saving]
  /\ UNCHANGED <<now, issued, procs>>

LoadHistory ==
  /\ ret = NoCall
  /\ ret' = [op |-> "loadHistory", threw |-> "none", value |-> loadHistory(file),
             saving |-> NotSaved]
  /\ UNCHANGED <<file, now, issued, procs>>

Detect(invoices, configs) ==
  /\ ret = NoCall
  /\ \E invoiceData \in invoices, config \in configs :
       /\ ret' = [op |-> "detectDiscrepancies", invoiceData |-> invoiceData,
                  config |-> config, threw |-> "none",
                  value |-> detectDiscrepancies(file, invoiceData, config),
                  saving |-> NotSaved]
       /\ file' = detectDiscrepancies_file(file, invoiceData, config, now)
  /\ UNCHANGED <<now, issued, procs>>

CallCheckValue(values, means, stdDevs, configs) ==
  /\ ret = NoCall
  /\ \E currentValue \in values, historicalMean \in means,
        historicalStdDev \in stdDevs, config \in configs :
       ret' = [op |-> "checkValue", currentValue |-> currentValue,
               historicalMean |-> historicalMean,
               historicalStdDev |-> historicalStdDev, config |-> config,
               threw |-> "none",
               value |-> checkValue(currentValue, historicalMean,
                                    historicalStdDev, config),
               saving |-> NotSaved]
  /\ UNCHANGED <<file, now, issued, procs>>

\* Writer p runs addInvoice up to its push
WriterLoad(p, invoices, suffixes) ==
  /\ procs[p].pc = "idle"
  /\ \E invoiceData \in invoices, suffix \in suffixes :
       /\ procs' = [procs EXCEPT ![p] = addInvoice_loaded(file, invoiceData, now, suffix)]
       /\ issued' = issued \cup {[t |-> now, suffix |-> suffix,
                                  id |-> generateId(now, suffix)]}
  /\ UNCHANGED <<file, now, ret>>

\* Writer p runs the saveHistory of its addInvoice, and returns
WriterSave(p, outcomes) ==
  /\ procs[p].pc = "loaded"
  /\ \E w \in outcomes : file' = addInvoice_saved(file, procs[p], now, w)
  /\ procs' = [procs EXCEPT ![p] = [pc |-> "done",
                                    invoiceRecord |-> procs[p].invoiceRecord]]
  /\ UNCHANGED <<now, ret, issued>>

\* normalizeItemDescription is called on a description, and then on the
\* descriptions that differ from it in letter case, in whitespace at the
\* ends, in the length of a whitespace run, or in punctuation
UpperOf(c) ==
  IF \E i \in 1..Len(LowerCase) : LowerCase[i] = c
  THEN UpperCase[CHOOSE i \in 1..Len(LowerCase) : LowerCase[i] = c]
  ELSE c
InsertAt(s, i, c) == SubSeq(s, 1, i) \o <<c>> \o SubSeq(s, i + 1, Len(s))
RemoveAt(s, i) == SubSeq(s, 1, i - 1) \o SubSeq(s, i + 1, Len(s))
Punctuation == {",", "-"}
Blanks == {" ", "\t"}
Normalized(first, description) ==
  [op |-> "normalizeItemDescription", first |-> first, description |-> description,
   firstValue |-> normalizeItemDescription(first),
   value |-> normalizeItemDescription(description),
   threw |-> "none", saving |-> NotSaved]
IsNormalize == ret.op = "normalizeItemDescription"

Normalize(descriptions) ==
  /\ ret = NoCall
  /\ \E description \in descriptions : ret' = Normalized(description, description)
  /\ UNCHANGED <<file, now, issued, procs>>

\* a letter in the other case
SwitchCase ==
  /\ IsNormalize
  /\ \E i \in 1..Len(ret.description) :
       /\ ret.description[i] \in Letters
       /\ ret' = Normalized(ret.first,
                            [ret.description EXCEPT ![i] =
                               IF LowerOf(@) = @ THEN UpperOf(@) ELSE LowerOf(@)])
  /\ UNCHANGED <<file, now, issued, procs>>

\* one more, or one less, whitespace character at an end
PadEnds ==
  /\ IsNormalize
  /\ \/ /\ Len(ret.description) < MaxLen
        /\ \E c \in Blanks :
             \/ ret' = Normalized(ret.first, <<c>> \o ret.description)
             \/ ret' = Normalized(ret.first, ret.description \o <<c>>)
     \/ /\ ret.description # <<>> /\ Head(ret.description) \in Whitespace
        /\ ret' = Normalized(ret.first, Tail(ret.description))
     \/ /\ ret.description # <<>>
        /\ ret.description[Len(ret.description)] \in Whitespace
        /\ ret' = Normalized(ret.first, RemoveAt(ret.description, Len(ret.description)))
  /\ UNCHANGED <<file, now, issued, procs>>

\* a whitespace run one character longer, or shorter
StretchRun ==
  /\ IsNormalize
  /\ \E i \in 1..Len(ret.description) :
       /\ ret.description[i] \in Whitespace
       /\ \/ /\ Len(ret.description) < MaxLen
             /\ \E c \in Blanks :
                  ret' = Normalized(ret.first, InsertAt(ret.description, i, c))
          \/ /\ i < Len(ret.description) /\ ret.description[i + 1] \in Whitespace
             /\ ret' = Normalized(ret.first, RemoveAt(ret.description, i))
  /\ UNCHANGED <<file, now, issued, procs>>

\* one more, or one less, punctuation character
Punctuate ==
  /\ IsNormalize
  /\ \/ /\ Len(ret.description) < MaxLen
        /\ \E i \in 0..Len(ret.description), c \in Punctuation :
             ret' = Normalized(ret.first, InsertAt(ret.description, i, c))
     \/ \E i \in 1..Len(ret.description) :
          /\ ret.description[i] \in Punctuation
          /\ ret' = Normalized(ret.first, RemoveAt(ret.description, i))
  /\ UNCHANGED <<file, now, issued, procs>>

\* The lines parseInvoice is given: a description, a quantity, a unit price
\* and an amount as they are written, each with the number it denotes (NaN
\* when it denotes none), and what is written between them
Written(text, value) == [text |-> text, value |-> value]
LineOf(f) ==
  f.description \o f.sep[1] \o f.quantity.text \o f.sep[2] \o f.unitPrice.text
  \o f.sep[3] \o f.amount.text
Separators ==
  {<<<<" ", " ">>, <<" ">>, <<"\t">>>>,
   <<<<" ", " ", " ">>, <<" ", "$">>, <<" ", "$", " ">>>>,
   <<<<",", " ">>, <<",", " ">>, <<",", "$">>>>,
   <<<<" ">>, <<" ">>, <<" ">>>>}
Quantities ==
  {Written(<<"2">>, Num(2)), Written(<<"1", "2">>, Num(12)), Written(<<"x">>, NaN)}
UnitPrices ==
  {Written(<<"1", "0", ".", "0", "0">>, Num(10)),
   Written(<<"1", "0", ".", "5">>, Rat(105, 10)),
   Written(<<"7">>, Num(7)),
   Written(<<"a", "b", "c">>, NaN)}
Amounts ==
  {Written(<<"2", "0", ".", "0", "0">>, Num(20)),
   Written(<<"2", "1">>, Num(21))}
Lines ==
  {[description |-> <<"A", "b">>, sep |-> sep, quantity |-> quantity,
    unitPrice |-> unitPrice, amount |-> amount] :
     sep \in Separators, quantity \in Quantities, unitPrice \in UnitPrices,
     amount \in Amounts}
\* The lines a text may go on with
MoreLines ==
  {[description |-> <<"C">>, sep |-> <<<<" ", " ">>, <<" ">>, <<" ">>>>,
    quantity |-> Written(<<"1">>, Num(1)),
    unitPrice |-> Written(<<"5">>, Num(5)),
    amount |-> Written(<<"5", ".", "0", "0">>, Num(5))],
   [description |-> <<"T", "o", "t", "a", "l">>, sep |-> <<<<":", " ">>, <<>>, <<>>>>,
    quantity |-> Written(<<>>, NaN),
    unitPrice |-> Written(<<>>, NaN),
    amount |-> Written(<<"2", "0", ".", "0", "0">>, Num(20))]}

RECURSIVE Join(_)
Join(lines) ==
  IF Len(lines) = 0 THEN <<>>
  ELSE IF Len(lines) = 1 THEN LineOf(lines[1])
  ELSE LineOf(lines[1]) \o <<"\n">> \o Join(Tail(lines))

ParseInvoice(firstLines, moreLines) ==
  /\ ret = NoCall
  /\ \E lines \in {<<f>> : f \in firstLines}
                   \cup {<<f, g>> : f \in firstLines, g \in moreLines} :
       ret' = [op |-> "parseInvoice", lines |-> lines, text |-> Join(lines),
               threw |-> "none", value |-> parseInvoice(Join(lines)),
               saving |-> NotSaved]
  /\ UNCHANGED <<file, now, issued, procs>>

\* The upload directory: what pdf() makes of each document in it, by base
\* name.  "c.pdf" is no PDF: pdf() rejects.
Resolved(text) == [ok |-> TRUE, text |-> text]
Rejected == [ok |-> FALSE]
Documents ==
  [a |-> Resolved(Str(<<"A", "b", " ", " ", "2", " ", "1", "0", ".", "0", "0", " ",
                        "2", "0", ".", "0", "0">>)),
   b |-> Resolved(Str(<<"a", "b", " ", " ", "1", " ", "2", "0", ".", "0", "0", " ",
                        "2", "0", ".", "0", "0", "\n",
                        "T", "o", "t", "a", "l", ":", " ", "2", "0", ".", "0", "0">>)),
   c |-> Rejected,
   d |-> Resolved(Undefined)]
FileName(dir, base) == [dir |-> dir, base |-> base]
ServerBody(named, mode, minSamples) ==
  [file |-> named] @@ Body(Undefined, Undefined, mode, minSamples)
Request(upload, body) == [file |-> upload, body |-> body]
Upload(base) == [filename |-> FileName("", base)]
Requests ==
  {Request(Upload("a"), ServerBody(Undefined, Undefined, Undefined)),
   Request(Upload("c"), ServerBody(Undefined, Undefined, Undefined)),
   Request(Upload("d"), ServerBody(Undefined, Undefined, Undefined)),
   Request(Undefined, ServerBody(FileName("x", "b"), Str("percentage"), Str(<<"1">>))),
   Request(Undefined, ServerBody(FileName("", "z"), Undefined, Undefined)),
   Request(Undefined, ServerBody(Undefined, Undefined, Undefined))}
AllOk == [addInvoice |-> "ok", updateStatistics |-> "ok", report |-> "ok"]
\* The writes of a request, each with any outcome; the report is written
\* whole or not at all as far as the history is concerned
WriteFaults ==
  [addInvoice : WriteOutcomes, updateStatistics : WriteOutcomes,
   report : {"ok", "unopened"}]

\* Request p arrives and runs to its await or to its early response
Receive(p, requests) ==
  /\ procs[p].pc = "idle"
  /\ \E request \in requests :
       procs' = [procs EXCEPT ![p] = processInvoice_received(request, DOMAIN Documents)]
  /\ UNCHANGED <<file, now, ret, issued>>

\* pdf(dataBuffer) settles for request p, which runs to its response: a
\* rejection goes to the catch, a resolution through lines 219-256
Resume(p, suffixes, outcomes) ==
  /\ procs[p].pc = "awaiting"
  /\ IF ~Documents[procs[p].dataBuffer].ok
     THEN /\ procs' = [procs EXCEPT ![p] = ProcessingFailed(file, "pdf").response]
          /\ UNCHANGED <<file, issued>>
     ELSE \E suffix \in suffixes, w \in outcomes,
             invoiceData \in {invoiceDataOf(procs[p], Documents[procs[p].dataBuffer])} :
            \E o \in {processInvoice(file, procs[p], invoiceData, now, suffix, w)} :
              /\ file' = o.file
              /\ procs' = [procs EXCEPT ![p] = o.response]
              /\ issued' = issued \cup {[t |-> now, suffix |-> suffix,
                                         id |-> generateId(now, suffix)]}
  /\ UNCHANGED <<now, ret>>

RecalculateStatistics(outcomes) ==
  /\ ret = NoCall
  /\ \E w \in outcomes :
       \E o \in {recalculateStatistics(file, now, w)} :
         /\ file' = o.file
         /\ ret' = [op |-> "recalculate-statistics", threw |-> "none",
                    value |-> o.response, saving |-> NotSaved]
  /\ UNCHANGED <<now, issued, procs>>

\* The texts extractTotals is given: a subtotal line, a tax line or none,
\* and a total line, each amount written after its label
Labelled(label, written) == label \o written.text
SubtotalLabels ==
  {<<"S", "u", "b", "t", "o", "t", "a", "l", ":", " ">>,
   <<"S", "u", "b", " ", "T", "o", "t", "a", "l", " ", "$">>}
TotalLabels ==
  {<<"T", "o", "t", "a", "l", ":", " ">>,
   <<"G", "r", "a", "n", "d", " ", "T", "o", "t", "a", "l", ":", " ", "$">>,
   <<"T", "O", "T", "A", "L", " ">>}
TaxLines ==
  {<<>>,
   <<"T", "a", "x", " ", "(", "1", "0", "%", ")", ":", " ", "1", "0", ".", "0", "0", "\n">>}
Subtotals ==
  {Written(<<"1", "0", "0", ".", "0", "0">>, Num(100)),
   Written(<<"9", "0">>, Num(90)),
   Written(<<"1", ",", "2", "5", "0", ".", "0", "0">>, Num(1250)),
   Written(<<"1", "2", "5", "0", ".", "0", "0">>, Num(1250))}
Totals ==
  {Written(<<"1", "1", "0", ".", "0", "0">>, Num(110)),
   Written(<<"9", "9">>, Num(99)),
   Written(<<"1", ",", "3", "7", "5", ".", "0", "0">>, Num(1375))}

ExtractTotals(subtotalLabels, subtotals, taxLines, totalLabels, totals) ==
  /\ ret = NoCall
  /\ \E subtotalLabel \in subtotalLabels, subtotal \in subtotals, taxLine \in taxLines,
        totalLabel \in totalLabels, total \in totals :
       \E text \in {Labelled(subtotalLabel, subtotal) \o <<"\n">> \o taxLine
                     \o Labelled(totalLabel, total)} :
         ret' = [op |-> "extractTotals", text |-> text, subtotal |-> subtotal,
                 total |-> total, threw |-> "none", value |-> extractTotals(text),
                 saving |-> NotSaved]
  /\ UNCHANGED <<file, now, issued, procs>>

(***************************************************************************)
(* SpecCV: checkValue on its own (it is exported)                          *)
(***************************************************************************)
CurrentValues == {Null} \cup {Num(v) : v \in {-130, -115, 70, 100, 115, 118, 123, 130, 131}}
HistoricalMeans == {Null, Num(0), Num(100), Num(-100)}
\* stdDev 0, 10 and 15, by their squares; undefined when there is none
HistoricalStdDevs == {Undefined, Num(0), Num(100), Num(225)}
Modes == {"percentage", "stddev", "both", "none"}
CheckConfigs ==
  {[DEFAULT_CONFIG EXCEPT !.mode = m, !.percentageThreshold = p, !.stdDevThreshold = s] :
     m \in Modes,
     p \in {Rat(15, 100), Rat(10, 100), Num(0)},
     s \in {Num(2), Num(1), Num(-1)}}

InitCV == file = Missing /\ now = 0 /\ ret = NoCall /\ issued = {} /\ procs = NoProcs

NextCV ==
  \/ CallCheckValue(CurrentValues, HistoricalMeans, HistoricalStdDevs, CheckConfigs)
  \/ Return

SpecCV == InitCV /\ [][NextCV]_vars

(***************************************************************************)
(* Spec: invoices are added, the statistics refreshed and invoices checked *)
(***************************************************************************)
Init == file = Missing /\ now = 0 /\ ret = NoCall /\ issued = {} /\ procs = NoProcs

Next ==
  \/ AddInvoice(HistoryInvoices, {1}, {"ok"})
  \/ UpdateStatistics({"ok"})
  \/ Detect(DetectInvoices, DetectConfigs)
  \/ CallCheckValue({Num(100), Num(130)}, {Num(100), Num(0), Null}, {Num(0), Num(100)},
                    {DEFAULT_CONFIG, [DEFAULT_CONFIG EXCEPT !.mode = "stddev"]})
  \/ Return

Spec == Init /\ [][Next]_vars

(***************************************************************************)
(* SpecStore: the store under write failures, with whatever the history    *)
(* file held before the process started                                    *)
(***************************************************************************)
InitStore ==
  /\ file \in {Missing, Garbage, Json(EmptyObject)}
  /\ now = 0
  /\ ret = NoCall
  /\ issued = {}
  /\ procs = NoProcs

NextStore ==
  \/ AddInvoice(StoreInvoices, {1}, WriteOutcomes)
  \/ UpdateStatistics(WriteOutcomes)
  \/ ClearHistory(WriteOutcomes)
  \/ LoadHistory
  \/ Detect(StoreInvoices, {<<>>})
  \/ Return

SpecStore == InitStore /\ [][NextStore]_vars

(***************************************************************************)
(* SpecIds: invoices are added as the clock advances, several of them      *)
(* within one millisecond                                                  *)
(***************************************************************************)
NextIds ==
  \/ AddInvoice({InvoiceData("a.pdf", Null, <<Widget100>>, Null, Null)},
                Suffixes, {"ok"})
  \/ Tick
  \/ Return

SpecIds == Init /\ [][NextIds]_vars

(***************************************************************************)
(* SpecWriters: two processes call addInvoice on the same history file     *)
(***************************************************************************)
NextWriters ==
  \/ \E p \in Procs : WriterLoad(p, StoreInvoices, Suffixes)
  \/ \E p \in Procs : WriterSave(p, {"ok"})
  \/ Tick

SpecWriters == Init /\ [][NextWriters]_vars

(***************************************************************************)
(* SpecNorm: normalizeItemDescription on descriptions that differ in case, *)
(* whitespace and punctuation                                              *)
(***************************************************************************)
NextNorm ==
  \/ Normalize({<<"W", " ", "l">>, <<"W", "l">>})
  \/ SwitchCase
  \/ PadEnds
  \/ StretchRun
  \/ Punctuate
  \/ Return

SpecNorm == Init /\ [][NextNorm]_vars

(***************************************************************************)
(* SpecParse: parseInvoice on texts of one and two lines                   *)
(***************************************************************************)
NextParse ==
  \/ ParseInvoice(Lines, MoreLines)
  \/ Return

SpecParse == Init /\ [][NextParse]_vars

(***************************************************************************)
(* SpecServer: the server with requests in flight.  The history file is    *)
(* not there yet, or holds an invoice whose request stopped between        *)
(* addInvoice and updateStatistics.  Every write succeeds.                 *)
(***************************************************************************)
Unrefreshed ==
  addInvoice(Missing,
             invoiceDataOf([filename |-> FileName("", "a")], Documents["a"]),
             0, 1, "ok").file

InitServer ==
  /\ file \in {Missing, Unrefreshed}
  /\ now = 0 /\ ret = NoCall /\ issued = {} /\ procs = NoProcs

NextServer ==
  \/ \E p \in Procs : Receive(p, Requests)
  \/ \E p \in Procs : Resume(p, {1}, {AllOk})
  \/ RecalculateStatistics({"ok"})
  \/ Return

SpecServer == InitServer /\ [][NextServer]_vars

(***************************************************************************)
(* SpecFaults: the /process-invoice requests of SpecServer, with writes    *)
(* that may fail                                                           *)
(***************************************************************************)
NextFaults ==
  \/ \E p \in Procs : Receive(p, Requests)
  \/ \E p \in Procs : Resume(p, {1}, WriteFaults)

SpecFaults == InitServer /\ [][NextFaults]_vars

(***************************************************************************)
(* SpecTotals: extractTotals on texts with a subtotal and a total          *)
(***************************************************************************)
NextTotals ==
  \/ ExtractTotals(SubtotalLabels, Subtotals, TaxLines, TotalLabels, Totals)
  \/ Return

SpecTotals == Init /\ [][NextTotals]_vars

(***************************************************************************)
(* Claims                                                                  *)
(***************************************************************************)
IsCheckValue == ret.op = "checkValue"
\* a call of checkValue with a current value and a non-zero mean, in one of
\* the three modes
C1_Case ==
  /\ IsCheckValue
  /\ IsNumber(ret.currentValue)
  /\ IsNumber(ret.historicalMean) /\ ret.historicalMean.n # 0
  /\ ret.config.mode \in {"percentage", "stddev", "both"}

\* |current - mean| / mean, as the claim writes it
C1_SignedVariance == RatDiv(RatAbs(RatSub(ret.currentValue, ret.historicalMean)),
                            ret.historicalMean)
\* |current - mean| / |mean|
C1_Variance == RatDiv(RatAbs(RatSub(ret.currentValue, ret.historicalMean)),
                      RatAbs(ret.historicalMean))
\* stdDevVariance > stdDevThreshold, with stdDevVariance = |current - mean| / stdDev
\* when stdDev > 0 and 0 otherwise (decided on the squares)
C1_StdDevExceeded ==
  LET stdDev == ret.historicalStdDev
      diff == RatSub(ret.currentValue, ret.historicalMean)
      sq == IF IsNumber(stdDev) /\ stdDev.n > 0
            THEN RatDiv(RatMul(diff, diff), stdDev) ELSE Num(0)
      thr == ret.config.stdDevThreshold
  IN  thr.n < 0 \/ RatGT(sq, RatMul(thr, thr))
C1_Flag(pv) ==
  CASE ret.config.mode = "percentage" -> RatGT(pv, ret.config.percentageThreshold)
    [] ret.config.mode = "stddev" -> C1_StdDevExceeded
    [] ret.config.mode = "both" ->
         RatGT(pv, ret.config.percentageThreshold)
         \/ (IsNumber(ret.historicalStdDev) /\ ret.historicalStdDev.n > 0
             /\ C1_StdDevExceeded)

\* C1 as stated: checkValue flags the value iff the mode's condition holds,
\* with percentageVariance = |current - mean| / mean.
C1_FlagIffSignedVariance ==
  C1_Case => (ret.value.isDiscrepancy <=> C1_Flag(C1_SignedVariance))

\* C1 amended: checkValue flags the value iff the mode's condition holds,
\* with percentageVariance = |current - mean| / |mean| (the same number for
\* a positive mean).
C1_FlagIffVariance ==
  C1_Case => (ret.value.isDiscrepancy <=> C1_Flag(C1_Variance))

\* mode 'both', a negative mean, flagged by the standard deviation alone
C1_Witness ==
  /\ C1_Case
  /\ ret.config.mode = "both"
  /\ ret.historicalMean.n < 0
  /\ ret.value.isDiscrepancy
  /\ ~RatGT(C1_Variance, ret.config.percentageThreshold)

IsDetect == ret.op = "detectDiscrepancies"
Findings == ret.value.discrepancies
FindingsOf(type) == {i \in 1..Len(Findings) : Findings[i].type = type}
\* The persisted aggregate of a finding's item or vendor, if there is one
ItemAggregates == loadHistory(file).itemAverages
HasItemAggregate(description) ==
  normalizeItemDescription(description) \in DOMAIN ItemAggregates
ItemAggregate(description) == ItemAggregates[normalizeItemDescription(description)]

\* C2: no finding of type line_item is returned for a line item whose
\* normalized description has no ItemAggregate or whose ItemAggregate.count is
\* less than minSamples.
C2_NoFindingBelowMinSamples ==
  IsDetect =>
    \A i \in FindingsOf("line_item") :
      LET item == ret.invoiceData.lineItems[Findings[i].lineIndex + 1]
          minSamples == ret.value.config.minSamples
      IN  /\ HasItemAggregate(item.description)
          /\ IsNumber(minSamples) =>
               ~RatLT(Num(ItemAggregate(item.description).count), minSamples)

\* a line item with 1 or 2 samples under minSamples 3, with a unit price more
\* than 15% off the historical mean, was checked and not reported
C2_Witness ==
  /\ IsDetect
  /\ ret.value.config = DEFAULT_CONFIG
  /\ \E k \in 1..Len(ret.invoiceData.lineItems) :
       LET item == ret.invoiceData.lineItems[k]
       IN  /\ HasItemAggregate(item.description)
           /\ ItemAggregate(item.description).count \in {1, 2}
           /\ IsNumber(item.unitPrice)
           /\ RatGT(RatAbs(RatSub(item.unitPrice,
                                  ItemAggregate(item.description).avgUnitPrice)),
                    RatMul(Rat(15, 100), ItemAggregate(item.description).avgUnitPrice))
           /\ \A i \in FindingsOf("line_item") : Findings[i].lineIndex # k - 1

\* x > k * threshold, false when the threshold is no number
C3_Exceeds(x, threshold, k) ==
  IsNumber(threshold) /\ RatGT(x, RatMul(threshold, k))
\* the same for a non-negative x given by its square
C3_RootExceeds(sq, threshold, k) ==
  IsNumber(threshold)
  /\ (threshold.n < 0
      \/ RatGT(sq, RatMul(RatMul(threshold, k), RatMul(threshold, k))))
C3_Severity(pv, sdvSq, cfg) ==
  IF C3_Exceeds(pv, cfg.percentageThreshold, Num(2))
     \/ C3_RootExceeds(sdvSq, cfg.stdDevThreshold, Rat(15, 10))
  THEN "high"
  ELSE IF C3_Exceeds(pv, cfg.percentageThreshold, Rat(15, 10))
          \/ C3_RootExceeds(sdvSq, cfg.stdDevThreshold, Rat(12, 10))
       THEN "medium"
       ELSE "low"
\* percentageVariance and the square of stdDevVariance of a value against a
\* mean and a variance
C3_Pv(value, mean) == RatDiv(RatAbs(RatSub(value, mean)), RatAbs(mean))
C3_SdvSq(value, mean, variance) ==
  IF variance.n > 0
  THEN RatDiv(RatMul(RatSub(value, mean), RatSub(value, mean)), variance)
  ELSE Num(0)
\* The persisted mean and variance a finding's field is compared against
C3_Baseline(f) ==
  IF f.type = "line_item"
  THEN LET h == ItemAggregate(f.description)
       IN  CASE f.field = "unitPrice" -> <<h.avgUnitPrice, h.unitPriceStdDev>>
             [] f.field = "quantity" -> <<h.avgQuantity, h.quantityStdDev>>
             [] f.field = "amount" -> <<h.avgAmount, h.amountStdDev>>
  ELSE LET v == loadHistory(file).vendorAverages[f.vendor]
       IN  CASE f.field = "total" -> <<v.avgTotal, v.totalStdDev>>
             [] f.field = "subtotal" -> <<v.avgSubtotal, v.subtotalStdDev>>
\* The value of the invoice a finding is about
C3_Current(f) ==
  IF f.type = "line_item"
  THEN ret.invoiceData.lineItems[f.lineIndex + 1][f.field]
  ELSE ret.invoiceData.totals[f.field]

\* C3: the severity checkValue returns is 'high' if percentageVariance >
\* 2 x percentageThreshold or stdDevVariance > 1.5 x stdDevThreshold, otherwise
\* 'medium' if percentageVariance > 1.5 x percentageThreshold or stdDevVariance
\* > 1.2 x stdDevThreshold, otherwise 'low'; and every finding of
\* detectDiscrepancies carries the severity so computed for its field.
C3_SeverityRule ==
  /\ (IsCheckValue /\ "severity" \in DOMAIN ret.value) =>
       ret.value.severity =
         C3_Severity(C3_Pv(ret.currentValue, ret.historicalMean),
                     C3_SdvSq(ret.currentValue, ret.historicalMean,
                              ret.historicalStdDev),
                     ret.config)
  /\ IsDetect =>
       \A i \in 1..Len(Findings) :
         LET f == Findings[i]
             b == C3_Baseline(f)
         IN  f.severity = C3_Severity(C3_Pv(C3_Current(f), b[1]),
                                      C3_SdvSq(C3_Current(f), b[1], b[2]),
                                      ret.value.config)

\* a finding of severity 'medium' against a baseline with a non-zero standard
\* deviation has been returned
C3_Witness ==
  /\ IsDetect
  /\ \E i \in 1..Len(Findings) :
       /\ Findings[i].severity = "medium"
       /\ Findings[i].stdDevVariance.n > 0

\* The case of C4: unit prices [100, 100, 100] in history (mean 100, stdDev 0,
\* count 3), an invoice with that item at 130, the default configuration
C4_Item(k) ==
  LET item == ret.invoiceData.lineItems[k]
  IN  /\ item.unitPrice = Num(130)
      /\ HasItemAggregate(item.description)
      /\ ItemAggregate(item.description).avgUnitPrice = Num(100)
      /\ ItemAggregate(item.description).unitPriceStdDev = Num(0)
      /\ ItemAggregate(item.description).count = 3
C4_Case(k) ==
  /\ IsDetect
  /\ ret.value.config = DEFAULT_CONFIG
  /\ k \in 1..Len(ret.invoiceData.lineItems)
  /\ C4_Item(k)
C4_Flagged(k, severity) ==
  \E i \in FindingsOf("line_item") :
    /\ Findings[i].lineIndex = k - 1
    /\ Findings[i].field = "unitPrice"
    /\ Findings[i].percentageVariance = Rat(30, 100)
    /\ Findings[i].severity = severity

\* C4 as stated: the unit price is flagged and the finding's severity is 'high'.
C4_FlaggedHigh ==
  IsDetect =>
    \A k \in 1..Len(ret.invoiceData.lineItems) : C4_Case(k) => C4_Flagged(k, "high")

\* C4 amended: the unit price is flagged (percentageVariance 0.30 > 0.15) and
\* the finding's severity is 'medium': 0.30 is not greater than 2 x 0.15, and
\* it is greater than 1.5 x 0.15.
C4_FlaggedMedium ==
  IsDetect =>
    \A k \in 1..Len(ret.invoiceData.lineItems) : C4_Case(k) => C4_Flagged(k, "medium")

C4_Witness ==
  /\ IsDetect
  /\ \E k \in 1..Len(ret.invoiceData.lineItems) : C4_Case(k) /\ C4_Flagged(k, "medium")

IsPrefix(a, b) == Len(a) <= Len(b) /\ SubSeq(b, 1, Len(a)) = a
\* The invoices a load of the file returns
PersistedInvoices(f) ==
  IF HasInvoices(loadHistory(f)) THEN loadHistory(f).invoices ELSE <<>>

\* C5: across every store operation other than clearHistory, the invoices
\* persisted before are a prefix of the invoices persisted after.
C5_AppendOnly ==
  [][ret'.op # "clearHistory" =>
       IsPrefix(PersistedInvoices(file), PersistedInvoices(file'))]_vars

\* C6: after a save, whether it completed or failed part-way, a load observes
\* either the complete state from before the save or the complete state being
\* saved.
C6_AtomicSave ==
  [][(ret' # NoCall /\ ret'.saving.attempted) =>
       \/ loadHistory(file') = loadHistory(file)
       \/ loadHistory(file') = ret'.saving.data]_vars

IsHistoryState(h) ==
  DOMAIN h = {"invoices", "itemAverages", "vendorAverages", "lastUpdated"}

\* C7: loadHistory always returns a valid HistoryState (the empty one when the
\* persisted content is not a well-formed HistoryState), so addInvoice,
\* updateStatistics and detectDiscrepancies do not fail on what it returns.
C7_LoadAlwaysValid ==
  /\ ret.op = "loadHistory" => IsHistoryState(ret.value)
  /\ ret.op \in {"addInvoice", "updateStatistics", "detectDiscrepancies"} =>
       ret.threw # "TypeError"

C9_ItemsOf(key) ==
  LET items == AllLineItems(PersistedInvoices(file))
  IN  {i \in 1..Len(items) : normalizeItemDescription(items[i].description) = key}
C9_Priced(key) ==
  LET items == AllLineItems(PersistedInvoices(file))
  IN  {i \in C9_ItemsOf(key) : ~IsNullish(items[i].unitPrice)}
C9_Keys ==
  LET items == AllLineItems(PersistedInvoices(file))
  IN  {normalizeItemDescription(items[i].description) : i \in 1..Len(items)}
C9_Refreshed == ret.op = "updateStatistics" /\ ret.threw = "none"

\* C9: immediately after a statistics refresh, itemAverages has a key for
\* exactly the normalized descriptions of the persisted line items, and each
\* count is the number of persisted line items of that key with a non-null
\* unitPrice.
C9_CountsPricedItems ==
  C9_Refreshed =>
    /\ DOMAIN ItemAggregates = C9_Keys
    /\ \A key \in C9_Keys : ItemAggregates[key].count = Cardinality(C9_Priced(key))

\* after a refresh, a key holds line items of two spellings, one of them
\* without a unit price
C9_Witness ==
  /\ C9_Refreshed
  /\ \E key \in C9_Keys :
       /\ Cardinality(C9_Priced(key)) >= 1
       /\ Cardinality(C9_Priced(key)) < Cardinality(C9_ItemsOf(key))
       /\ \E i, j \in C9_ItemsOf(key) :
            AllLineItems(PersistedInvoices(file))[i].description
              # AllLineItems(PersistedInvoices(file))[j].description

\* percentageThreshold, stdDevThreshold and minSamples are numbers >= 0
C10_Invalid(k, value) ==
  k \in {"percentageThreshold", "stdDevThreshold", "minSamples"}
  /\ (~IsNumber(value) \/ value.n < 0)
\* The config with its invalid options left out
C10_Omitting(config) ==
  [k \in {k \in DOMAIN config : ~C10_Invalid(k, config[k])} |-> config[k]]

\* C10: an option that is non-numeric or out of range is replaced by the
\* default: the findings are those of the call with that option omitted.
C10_InvalidIsDefault ==
  IsDetect =>
    Findings = detectDiscrepancies(file, ret.invoiceData,
                                   C10_Omitting(ret.config)).discrepancies

\* C11: a writer's save checks nothing and merges nothing: it replaces the
\* persisted invoices by the ones it loaded plus its own record, whatever
\* another writer has saved since that load -- so in the interleaving load,
\* load, save, save the first saved record is lost.
C11_SaveOverwrites ==
  [][\A p \in Procs :
       (procs[p].pc = "loaded" /\ procs'[p].pc = "done") =>
         PersistedInvoices(file') = procs[p].history.invoices]_vars

\* both writers have returned from addInvoice with records of their own, and
\* the persisted history holds one record only, one of the two
C11_Witness ==
  /\ \A p \in Procs : procs[p].pc = "done"
  /\ \E p, q \in Procs : procs[p].invoiceRecord.id # procs[q].invoiceRecord.id
  /\ Len(PersistedInvoices(file)) = 1
  /\ \E p \in Procs : PersistedInvoices(file) = <<procs[p].invoiceRecord>>

VendorAggregates == loadHistory(file).vendorAverages
C12_Vendor == ret.invoiceData.metadata.vendor

\* C12: findings of type total are produced only when checkTotals is true,
\* the invoice's vendor is non-null, a VendorAggregate is persisted under
\* exactly the invoice's vendor string and its count is at least minSamples;
\* an invoice without a vendor gets none, whatever the 'Unknown' bucket holds.
C12_TotalsNeedKnownVendor ==
  IsDetect =>
    /\ FindingsOf("total") # {} =>
         /\ ret.value.config.checkTotals
         /\ ~IsNullish(C12_Vendor)
         /\ C12_Vendor.s \in DOMAIN VendorAggregates
         /\ IsNumber(ret.value.config.minSamples) =>
              ~RatLT(Num(VendorAggregates[C12_Vendor.s].count),
                     ret.value.config.minSamples)
         /\ \A i \in FindingsOf("total") :
              /\ Findings[i].vendor = C12_Vendor.s
              /\ Findings[i].historicalCount = VendorAggregates[C12_Vendor.s].count
    /\ IsNullish(C12_Vendor) => FindingsOf("total") = {}

\* an invoice without a vendor, whose total is 30% above the mean of an
\* 'Unknown' bucket of three samples, is checked with the defaults and gets
\* no finding of type total
C12_Witness ==
  /\ IsDetect
  /\ ret.value.config = DEFAULT_CONFIG
  /\ IsNullish(C12_Vendor)
  /\ ret.invoiceData.totals.total = Num(130)
  /\ Unknown \in DOMAIN VendorAggregates
  /\ VendorAggregates[Unknown].count = 3
  /\ VendorAggregates[Unknown].avgTotal = Num(100)
  /\ FindingsOf("total") = {}

\* C13: every finding's field is unitPrice, quantity or amount (type
\* line_item) or total or subtotal (type total); none has field tax.
C13_TaxNeverCompared ==
  IsDetect =>
    \A i \in 1..Len(Findings) :
      \/ Findings[i].type = "line_item"
           /\ Findings[i].field \in {"unitPrice", "quantity", "amount"}
      \/ Findings[i].type = "total" /\ Findings[i].field \in {"total", "subtotal"}

\* the vendor's aggregate holds three samples with avgTax 20 and taxStdDev 0,
\* the invoice's tax is 50 and its total is reported, its tax is not
C13_Witness ==
  /\ IsDetect
  /\ ret.value.config = DEFAULT_CONFIG
  /\ ret.invoiceData.totals.tax = Num(50)
  /\ ~IsNullish(C12_Vendor)
  /\ C12_Vendor.s \in DOMAIN VendorAggregates
  /\ VendorAggregates[C12_Vendor.s].count = 3
  /\ VendorAggregates[C12_Vendor.s].avgTax = Num(20)
  /\ VendorAggregates[C12_Vendor.s].taxStdDev = Num(0)
  /\ \E i \in FindingsOf("total") : Findings[i].field = "total"
  /\ \A i \in 1..Len(Findings) : Findings[i].field # "tax"

\* C14: checkValue does not flag a value whose historical mean is null or
\* zero, and every finding of detectDiscrepancies has historicalAverage > 0.
C14_NoBaselineNoFinding ==
  /\ (IsCheckValue /\ (IsNullish(ret.historicalMean) \/ ret.historicalMean = Num(0)))
       => ~ret.value.isDiscrepancy
  /\ IsDetect =>
       \A i \in 1..Len(Findings) :
         /\ IsNumber(Findings[i].historicalAverage)
         /\ Findings[i].historicalAverage.n > 0

\* the vendor's aggregate holds three samples with avgSubtotal 0, the invoice's
\* subtotal is 200, and no finding is about the subtotal
C14_Witness ==
  /\ IsDetect
  /\ ret.value.config = DEFAULT_CONFIG
  /\ ret.invoiceData.totals.subtotal = Num(200)
  /\ ~IsNullish(C12_Vendor)
  /\ C12_Vendor.s \in DOMAIN VendorAggregates
  /\ VendorAggregates[C12_Vendor.s].count = 3
  /\ VendorAggregates[C12_Vendor.s].avgSubtotal = Num(0)
  /\ \A i \in 1..Len(Findings) : Findings[i].field # "subtotal"

\* C15: a call of detectDiscrepancies leaves the history file as it was:
\* invoices, itemAverages, vendorAverages and lastUpdated are the same before
\* and after; the invoice is not appended and nothing is recomputed.
C15_DetectLeavesStore ==
  [][ret'.op = "detectDiscrepancies" =>
       /\ file' = file
       /\ loadHistory(file') = loadHistory(file)
       /\ ~ret'.saving.attempted]_vars

\* an invoice that is not in the history of three invoices was checked and
\* has findings; the aggregates persisted are those of the three
C15_Witness ==
  /\ IsDetect
  /\ Findings # <<>>
  /\ Len(PersistedInvoices(file)) = 3
  /\ \A i \in 1..3 : PersistedInvoices(file)[i].filename # ret.invoiceData.filename
  /\ ItemAggregates = calculateItemAverages(loadHistory(file))
  /\ VendorAggregates = calculateVendorAverages(loadHistory(file))

\* C16: two descriptions that differ only in letter case, in whitespace at
\* the ends, in the length of internal whitespace runs and in the presence of
\* punctuation normalize to the same key.
C16_SameKey == IsNormalize => ret.value = ret.firstValue

IsParse == ret.op = "parseInvoice"
\* The line has the four-field shape, delimited by whitespace (two characters
\* or more after the description) or by commas, and its fields are numbers
C17_Delimited(f) ==
  \/ /\ Len(f.sep[1]) >= 2
     /\ \A k \in 1..3 : f.sep[k] # <<>> /\ f.sep[k][1] \in Whitespace
  \/ \A k \in 1..3 : f.sep[k] # <<>> /\ f.sep[k][1] = ","
C17_Numeric(f) ==
  IsNumber(f.quantity.value) /\ IsNumber(f.unitPrice.value) /\ IsNumber(f.amount.value)
C17_NotNumeric(f) ==
  ~IsNumber(f.quantity.value) \/ ~IsNumber(f.unitPrice.value) \/ ~IsNumber(f.amount.value)
C17_ItemOf(f) ==
  [description |-> f.description, quantity |-> f.quantity.value,
   unitPrice |-> f.unitPrice.value, amount |-> f.amount.value]
RECURSIVE C17_Expected(_)
C17_Expected(lines) ==
  IF Len(lines) = 0 THEN <<>>
  ELSE (IF C17_Delimited(Head(lines)) /\ C17_Numeric(Head(lines))
        THEN <<C17_ItemOf(Head(lines))>> ELSE <<>>)
       \o C17_Expected(Tail(lines))
C17_WellFormedItems ==
  \A k \in 1..Len(ret.value.lineItems) :
    /\ DOMAIN ret.value.lineItems[k] = {"description", "quantity", "unitPrice", "amount"}
    /\ IsNumber(ret.value.lineItems[k].quantity)
    /\ IsNumber(ret.value.lineItems[k].unitPrice)
    /\ IsNumber(ret.value.lineItems[k].amount)

\* C17: parseInvoice does not raise; every item it returns has a description
\* and numeric quantity, unitPrice and amount; a line of the four-field shape
\* whose fields are all numbers yields exactly that item, and a line with a
\* field that is no number yields none.
C17_ParsesNumericLines ==
  IsParse =>
    /\ ret.threw = "none"
    /\ C17_WellFormedItems
    /\ (\A k \in 1..Len(ret.lines) :
          (C17_Delimited(ret.lines[k]) /\ C17_Numeric(ret.lines[k]))
          \/ C17_NotNumeric(ret.lines[k]))
         => ret.value.lineItems = C17_Expected(ret.lines)

\* Request p goes from its await to a successful response in this step
Completed(p) ==
  procs[p].pc = "awaiting" /\ procs'[p].pc = "responded" /\ procs'[p].status = 200
Recalculated ==
  ret = NoCall /\ ret'.op = "recalculate-statistics" /\ ret'.value.status = 200
Succeeded(p) == procs[p].pc = "responded" /\ procs[p].status = 200
LastPersisted(f) == PersistedInvoices(f)[Len(PersistedInvoices(f))]

\* C18: the findings a successful /process-invoice responds with are those
\* of detectDiscrepancies against the history file as it was before the
\* request touched it, which does not hold the invoice; the file after the
\* request holds the invoice as its last record.
C18_DetectBeforeAppend ==
  [][\A p \in Procs :
       Completed(p) =>
         /\ procs'[p].discrepancies
              = detectDiscrepancies(file, procs'[p].invoice, requestConfig(procs[p].body))
         /\ Len(PersistedInvoices(file')) = Len(PersistedInvoices(file)) + 1
         /\ LastPersisted(file').lineItems = procs'[p].invoice.lineItems
         /\ LastPersisted(file').filename = procs[p].filename]_vars
C18_Witness ==
  \E p \in Procs :
    /\ Succeeded(p)
    /\ procs[p].discrepancies.hasDiscrepancies
    /\ \E k \in 1..Len(PersistedInvoices(file)) :
         /\ k > 1
         /\ PersistedInvoices(file)[k].lineItems = procs[p].invoice.lineItems

C20_Fresh(f) ==
  /\ loadHistory(f).itemAverages = calculateItemAverages(loadHistory(f))
  /\ loadHistory(f).vendorAverages = calculateVendorAverages(loadHistory(f))
C20_AggregatesRefreshed ==
  [][((\E p \in Procs : Completed(p)) \/ Recalculated) => C20_Fresh(file')]_vars
C20_Witness ==
  /\ ret.op = "recalculate-statistics"
  /\ ret.value.status = 200
  /\ \E p \in Procs : Succeeded(p)
  /\ Len(PersistedInvoices(file)) >= 2
  /\ loadHistory(file).itemAverages # <<>>
  /\ C20_Fresh(file)

\* A call of checkValue with a current value, a mean > 0, a standard
\* deviation >= 0, thresholds >= 0 and one of the three modes
C23_Case ==
  /\ IsCheckValue
  /\ IsNumber(ret.currentValue)
  /\ IsNumber(ret.historicalMean) /\ RatGT(ret.historicalMean, Num(0))
  /\ IsNumber(ret.historicalStdDev) /\ ~RatLT(ret.historicalStdDev, Num(0))
  /\ IsNumber(ret.config.percentageThreshold)
  /\ ~RatLT(ret.config.percentageThreshold, Num(0))
  /\ IsNumber(ret.config.stdDevThreshold)
  /\ ~RatLT(ret.config.stdDevThreshold, Num(0))
  /\ ret.config.mode \in {"percentage", "stddev", "both"}
C23_Distance(value) == RatAbs(RatSub(value, ret.historicalMean))
C23_Rank(severity) ==
  CASE severity = "low" -> 1 [] severity = "medium" -> 2 [] severity = "high" -> 3
C23_Farther ==
  {value \in CurrentValues :
     /\ IsNumber(value)
     /\ RatGT(C23_Distance(value), C23_Distance(ret.currentValue))}
C23_At(value) ==
  checkValue(value, ret.historicalMean, ret.historicalStdDev, ret.config)

\* C23: for a mean > 0, a standard deviation >= 0, thresholds >= 0 and one of
\* the three modes, a value equal to the mean is not flagged, and when a value
\* is flagged every value farther from the mean is flagged too, with a
\* severity at least as high.
C23_MonotoneInDistance ==
  C23_Case =>
    /\ (ret.currentValue = ret.historicalMean => ~ret.value.isDiscrepancy)
    /\ (ret.value.isDiscrepancy =>
          \A value \in C23_Farther :
            /\ C23_At(value).isDiscrepancy
            /\ C23_Rank(C23_At(value).severity) >= C23_Rank(ret.value.severity))
C23_Witness ==
  /\ C23_Case
  /\ ret.value.isDiscrepancy
  /\ ret.value.severity = "low"
  /\ \E value, other \in C23_Farther :
       /\ C23_At(value).severity = "medium"
       /\ C23_At(other).severity = "high"
       /\ RatLT(other, Num(0))

IsExtractTotals == ret.op = "extractTotals"

\* C22: for a text with a subtotal line before a total line, extractTotals
\* returns the amount of the subtotal line as subtotal and the amount of the
\* total line as total.
C22_TotalFromTotalLine ==
  IsExtractTotals =>
    /\ ret.value.subtotal = ret.subtotal.value
    /\ ret.value.total = ret.total.value

\* Request p gets an error response in this step
Failed(p) ==
  procs[p].pc # "responded" /\ procs'[p].pc = "responded" /\ procs'[p].status # 200
\* The persisted history: the invoices and both aggregate tables
C21_History(f) ==
  [invoices |-> PersistedInvoices(f),
   itemAverages |-> loadHistory(f).itemAverages,
   vendorAverages |-> loadHistory(f).vendorAverages]

\* C21: a /process-invoice request that ends with an error response (400,
\* 404 or 500) leaves the persisted invoices and both aggregate tables as
\* they were before it.
C21_ErrorLeavesHistory ==
  [][\A p \in Procs : Failed(p) => C21_History(file') = C21_History(file)]_vars

=============================================================================
